---- MODULE Spec2Model ----
(***************************************************************************)
(* Liquid-Assassin: the on-chain flash-loan liquidation contract           *)
(* (SimpleLiquidator) as a state machine.                                  *)
(*                                                                         *)
(* One transaction is a run of steps from pc = "ready" to pc = "done".     *)
(* `chain` is the state the EVM keeps (storage of the liquidator, token    *)
(* balances and allowances, the event log); `pre` is `chain` as it was     *)
(* when the running transaction began, and a revert puts it back.  The     *)
(* pool and the router are external contracts: what they answer is a       *)
(* nondeterministic choice.  `frame` holds the arguments and locals of the *)
(* running (or last) call and the external calls it made; `result` its     *)
(* outcome.                                                                *)
(***************************************************************************)
EXTENDS Integers, Sequences, FiniteSets, Bags, TLC

VARIABLES chain, pre, pc, frame, result, now

\* The server process beside the contract: `env` is process.env, `requests`
\* the calls of FlashLoanService.executeLiquidationWithFlashLoan,
\* `liquidationAttempts` and `activityLogs` two tables of the database,
\* `call` the running call of a pure function, `manager` the WebSocketManager
\* with the sockets and timers it created.
VARIABLES env, requests, liquidationAttempts, activityLogs, call, manager

\* The monitoring routes: `routes` is the module state of routes.ts
\* (monitoringCleanup, isMonitoring, isExecuting) with the handlers that are
\* waiting at an await and the scan intervals that are set, `storage` the
\* MemStorage, `liquidationPositions` the table of that name in the database.
VARIABLES routes, storage, liquidationPositions

liquidatorVars == <<chain, pre, pc, frame, result, now>>

serverVars == <<env, requests, liquidationAttempts, activityLogs, call, manager>>

monitorVars == <<routes, storage, liquidationPositions>>

vars == <<chain, pre, pc, frame, result, now,
          env, requests, liquidationAttempts, activityLogs, call, manager,
          routes, storage, liquidationPositions>>

(***************************************************************************)
(* The server before anything has run                                      *)
(***************************************************************************)
\* the chain of CHAIN_CONFIGS the model follows (the handlers of one chain
\* read and write that chain's entries only), and a chain id outside it
Ethereum == 1

UnsupportedChain == 5

SupportedChains == {Ethereum}

ChainIdArgs == SupportedChains \cup {UnsupportedChain}

\* no socket (connection.ws = null)
NoSocket == 0

EnvAllSet == [ALCHEMY_API_KEY |-> TRUE, PRIVATE_KEY |-> TRUE, LIQUIDATOR_CONTRACT |-> TRUE]

NoCall == [fn |-> "none"]

\* how many sockets and timers exist at once, and how many subscriptions
MaxSockets == 2

MaxTimers == 3

MaxSubscriptions == 1

\* connection.ws when it is a socket: the socket marked `current`
TheSocket == 1

\* initializeConnections; `overflow` is not a field of the class: it says
\* that a step asked for more sockets or timers than the bounds hold
InitManager ==
    [connections |-> [c \in SupportedChains |->
                        [ws |-> NoSocket, isConnected |-> FALSE, reconnectAttempts |-> 0,
                         subscriptions |-> << >>]],
     sockets |-> EmptyBag,
     timers |-> EmptyBag,
     scheduled |-> [c \in SupportedChains |-> 0],
     overflow |-> FALSE,
     activity |-> << >>]

\* routes.ts before any request: let monitoringCleanup = null,
\* isMonitoring = false, isExecuting = false
InitRoutes ==
    [monitoringCleanup |-> "null", isMonitoring |-> FALSE, isExecuting |-> FALSE,
     running |-> EmptyBag, intervals |-> 0, scans |-> 0]

\* new MemStorage(); hasBotConfiguration says that botConfigurations holds
\* the configuration of the user "default"
InitStorage == [hasBotConfiguration |-> FALSE, liquidationPositions |-> EmptyBag]

MonitorIdle ==
    /\ routes = InitRoutes
    /\ storage = InitStorage
    /\ liquidationPositions = << >>

ServerIdle ==
    /\ MonitorIdle
    /\ env = EnvAllSet
    /\ requests = << >>
    /\ liquidationAttempts = << >>
    /\ activityLogs = << >>
    /\ call = NoCall
    /\ manager = InitManager

(***************************************************************************)
(* Bounds of the model                                                     *)
(***************************************************************************)
MaxTime == 1
MaxLiquidations == 1
PoolLiquidity == 5000
RouterLiquidity == 3000

(***************************************************************************)
(* Program constants                                                       *)
(***************************************************************************)
FLASH_LOAN_PREMIUM_BPS == 5
MAX_SLIPPAGE_BPS == 1000
MIN_PROFIT_BPS == 10
BPS_DENOMINATOR == 10000

(***************************************************************************)
(* Addresses                                                               *)
(***************************************************************************)
ZeroAddress == "0x0"
OWNER == "owner"
STRANGER == "stranger"
THIS == "liquidator"
POOL == "pool"
ROUTER == "router"
USER == "user"
WETH == "WETH"
DAI == "DAI"
USDC == "USDC"

Tokens == {WETH, DAI, USDC}
Holders == {THIS, POOL, ROUTER, OWNER}
Spenders == {POOL, ROUTER}

NOT_ENTERED == "NOT_ENTERED"
ENTERED == "ENTERED"

(***************************************************************************)
(* Inputs the environment draws from                                       *)
(***************************************************************************)
Callers == {OWNER, STRANGER}
UserArgs == {ZeroAddress, USER}
AssetArgs == {ZeroAddress, WETH, DAI}
AmountArgs == {0, 1000}
SlippageArgs == {0, MAX_SLIPPAGE_BPS, MAX_SLIPPAGE_BPS + 1}
Deadlines == 0..MaxTime
Premiums == {0, 1}

(***************************************************************************)
(* Token arithmetic (ERC20 with Solidity 0.8 checked arithmetic)           *)
(***************************************************************************)
BalanceOf(c, token, holder) == c.balanceOf[token][holder]

Allowance(c, token, spender) == c.allowance[token][spender]

CanTransfer(c, token, from, amt) == BalanceOf(c, token, from) >= amt

Transfer(c, token, from, to, amt) ==
    IF from = to THEN c
    ELSE [c EXCEPT !.balanceOf[token][from] = @ - amt,
                   !.balanceOf[token][to] = @ + amt]

SafeIncreaseAllowance(c, token, spender, amt) ==
    [c EXCEPT !.allowance[token][spender] = @ + amt]

SafeApproveZero(c, token, spender) ==
    [c EXCEPT !.allowance[token][spender] = 0]

\* transferFrom(THIS, to, amt) by `spender`: spends the allowance
TransferFrom(c, token, spender, to, amt) ==
    Transfer([c EXCEPT !.allowance[token][spender] = @ - amt], token, THIS, to, amt)

CanTransferFrom(c, token, spender, amt) ==
    /\ Allowance(c, token, spender) >= amt
    /\ BalanceOf(c, token, THIS) >= amt

(***************************************************************************)
(* Pure functions of the contract                                          *)
(***************************************************************************)
\* mutant: the onlyOwner modifier left off
OnlyOwnerError_Missing(c, sender) == "none"

\* onlyOwner
OnlyOwnerError(c, sender) ==
    IF sender # c.owner THEN "Ownable: caller is not the owner" ELSE "none"

\* mutant: the maxSlippageBps check left out
ExecuteLiquidationError_NoSlippageCheck(c, sender, a, t) ==
    IF c.status = ENTERED THEN "ReentrancyGuard: reentrant call"
    ELSE IF c.paused THEN "Pausable: paused"
    ELSE IF OnlyOwnerError(c, sender) # "none" THEN OnlyOwnerError(c, sender)
    ELSE IF a.targetUser = ZeroAddress THEN "ZeroAddress"
    ELSE IF a.collateralAsset = ZeroAddress THEN "ZeroAddress"
    ELSE IF a.debtAsset = ZeroAddress THEN "ZeroAddress"
    ELSE IF a.debtAmount = 0 THEN "ZeroAmount"
    ELSE IF t > a.deadline THEN "DeadlineExpired"
    ELSE "none"

\* mutant: the whenNotPaused modifier left off
ExecuteLiquidationError_NoPauseCheck(c, sender, a, t) ==
    IF c.status = ENTERED THEN "ReentrancyGuard: reentrant call"
    ELSE IF OnlyOwnerError(c, sender) # "none" THEN OnlyOwnerError(c, sender)
    ELSE IF a.targetUser = ZeroAddress THEN "ZeroAddress"
    ELSE IF a.collateralAsset = ZeroAddress THEN "ZeroAddress"
    ELSE IF a.debtAsset = ZeroAddress THEN "ZeroAddress"
    ELSE IF a.debtAmount = 0 THEN "ZeroAmount"
    ELSE IF t > a.deadline THEN "DeadlineExpired"
    ELSE IF a.maxSlippageBps > MAX_SLIPPAGE_BPS THEN "InvalidSlippage"
    ELSE "none"

\* The modifiers of executeLiquidation, in the order they are written
\* (nonReentrant whenNotPaused onlyOwner), then its argument checks.
ExecuteLiquidationError(c, sender, a, t) ==
    IF c.status = ENTERED THEN "ReentrancyGuard: reentrant call"
    ELSE IF c.paused THEN "Pausable: paused"
    ELSE IF OnlyOwnerError(c, sender) # "none" THEN OnlyOwnerError(c, sender)
    ELSE IF a.targetUser = ZeroAddress THEN "ZeroAddress"
    ELSE IF a.collateralAsset = ZeroAddress THEN "ZeroAddress"
    ELSE IF a.debtAsset = ZeroAddress THEN "ZeroAddress"
    ELSE IF a.debtAmount = 0 THEN "ZeroAmount"
    ELSE IF t > a.deadline THEN "DeadlineExpired"
    ELSE IF a.maxSlippageBps > MAX_SLIPPAGE_BPS THEN "InvalidSlippage"
    ELSE "none"

\* nonReentrant, then the two caller checks of executeOperation, then the
\* deadline check that opens _processLiquidation.
ExecuteOperationError(c, f, t) ==
    IF c.status = ENTERED THEN "ReentrancyGuard: reentrant call"
    ELSE IF f.cbSender # POOL THEN "UnauthorizedCaller"
    ELSE IF f.initiator # THIS THEN "InvalidInitiator"
    ELSE IF t > f.deadline THEN "DeadlineExpired"
    ELSE "none"

\* mutant: the collateralReceived == 0 check left out
CollateralReceivedError_NoZeroCheck(collateralAfter, collateralBefore) ==
    IF collateralAfter < collateralBefore THEN "Panic(0x11)" ELSE "none"

\* uint256 collateralReceived = collateralAfter - collateralBefore (checked)
CollateralReceivedError(collateralAfter, collateralBefore) ==
    IF collateralAfter < collateralBefore THEN "Panic(0x11)"
    ELSE IF collateralAfter - collateralBefore = 0 THEN "FlashLoanFailed"
    ELSE "none"

NeedsSwap(collateralAsset, debtAsset, collateralReceived) ==
    collateralAsset # debtAsset /\ collateralReceived > 0

BuildSwapPath(tokenIn, tokenOut) ==
    IF tokenIn = WETH \/ tokenOut = WETH
    THEN <<tokenIn, tokenOut>>
    ELSE <<tokenIn, WETH, tokenOut>>

\* mutant: the expectedOut == 0 check left out
QuoteError_NoOutputCheck(amounts) ==
    IF Len(amounts) < 2 THEN "InvalidPath" ELSE "none"

\* the defensive checks on what getAmountsOut returned
QuoteError(amounts) ==
    IF Len(amounts) < 2 THEN "InvalidPath"
    ELSE IF amounts[Len(amounts)] = 0 THEN "NoOutput"
    ELSE "none"

\* 10000 - maxSlippageBps in uint256: a checked subtraction
SlippageUnderflows(maxSlippageBps) == maxSlippageBps > BPS_DENOMINATOR

\* mutant: the subtract-after form the audit replaced
MinAmountOut_SubtractAfter(expectedOut, maxSlippageBps) ==
    expectedOut - ((expectedOut * maxSlippageBps) \div BPS_DENOMINATOR)

MinAmountOut(expectedOut, maxSlippageBps) ==
    (expectedOut * (BPS_DENOMINATOR - maxSlippageBps)) \div BPS_DENOMINATOR

\* mutant: the realized output not compared with minAmountOut
SwapOutputError_NoMinimum(balanceAfter, balanceBefore, minAmountOut, expectedOut) ==
    IF balanceAfter < balanceBefore THEN "Panic(0x11)"
    ELSE IF balanceAfter - balanceBefore > expectedOut THEN "Panic(0x11)"
    ELSE "none"

\* after a swap that returned: the output check, then the reported slippage
\* ((expectedOut - amountOut) * 10000) / expectedOut, a checked subtraction
SwapOutputError(balanceAfter, balanceBefore, minAmountOut, expectedOut) ==
    IF balanceAfter < balanceBefore THEN "Panic(0x11)"
    ELSE IF balanceAfter - balanceBefore < minAmountOut THEN "SlippageExceeded"
    ELSE IF balanceAfter - balanceBefore > expectedOut THEN "Panic(0x11)"
    ELSE "none"

ActualSlippageBps(expectedOut, amountOut) ==
    ((expectedOut - amountOut) * BPS_DENOMINATOR) \div expectedOut

TotalRepayment(amount, premium) == amount + premium

MinProfit(amount) == (amount * MIN_PROFIT_BPS) \div BPS_DENOMINATOR

\* mutant: the profit floor not enforced
FinalizeError_NoProfitCheck(finalBalance, amount, premium) ==
    IF finalBalance < TotalRepayment(amount, premium) THEN "InsufficientBalance"
    ELSE "none"

\* mutant: the balance compared with the loan alone, the premium forgotten
FinalizeError_PremiumForgotten(finalBalance, amount, premium) ==
    IF finalBalance < amount THEN "InsufficientBalance"
    ELSE IF finalBalance < TotalRepayment(amount, premium) THEN "Panic(0x11)"
    ELSE IF finalBalance - TotalRepayment(amount, premium) < MinProfit(amount)
         THEN "InsufficientProfit"
    ELSE "none"

FinalizeError(finalBalance, amount, premium) ==
    IF finalBalance < TotalRepayment(amount, premium) THEN "InsufficientBalance"
    ELSE IF finalBalance - TotalRepayment(amount, premium) < MinProfit(amount)
         THEN "InsufficientProfit"
    ELSE "none"

EstimateFlashLoanCost(amount) == (amount * FLASH_LOAN_PREMIUM_BPS) \div BPS_DENOMINATOR

(***************************************************************************)
(* State                                                                   *)
(***************************************************************************)
NoFrame ==
    [fn |-> "none", sender |-> ZeroAddress, origin |-> ZeroAddress,
     targetUser |-> ZeroAddress, collateralAsset |-> ZeroAddress,
     debtAsset |-> ZeroAddress, debtAmount |-> 0, maxSlippageBps |-> 0,
     deadline |-> 0, asset |-> ZeroAddress, amount |-> 0, premium |-> 0,
     initiator |-> ZeroAddress, cbSender |-> ZeroAddress, nested |-> FALSE,
     collateralBefore |-> 0, collateralReceived |-> 0, path |-> <<>>,
     amounts |-> <<>>, expectedOut |-> 0, minAmountOut |-> 0,
     balanceBefore |-> 0, amountOut |-> 0, finalBalance |-> 0,
     collateralAfter |-> 0, timestamp |-> 0, handled |-> FALSE, quoted |-> FALSE,
     swapped |-> FALSE, finalized |-> FALSE, calls |-> <<>>]

NoResult == [outcome |-> "none", error |-> "none", failed |-> "none"]

Pending == [outcome |-> "pending", error |-> "none", failed |-> "none"]

InitChain ==
    [owner |-> OWNER,
     paused |-> FALSE,
     status |-> NOT_ENTERED,
     totalProfitGenerated |-> 0,
     totalLiquidationsExecuted |-> 0,
     lastExecutor |-> ZeroAddress,
     balanceOf |-> [t \in Tokens |-> [h \in Holders |->
                      IF h = POOL THEN PoolLiquidity
                      ELSE IF h = ROUTER THEN RouterLiquidity ELSE 0]],
     allowance |-> [t \in Tokens |-> [s \in Spenders |-> 0]],
     events |-> <<>>]

InitLiquidator ==
    /\ chain = InitChain
    /\ pre = InitChain
    /\ pc = "ready"
    /\ frame = NoFrame
    /\ result = NoResult
    /\ now = 0
    /\ ServerIdle

\* the contract left alone, for the specifications of the server
LiquidatorIdle ==
    /\ chain = InitChain
    /\ pre = InitChain
    /\ pc = "off"
    /\ frame = NoFrame
    /\ result = NoResult
    /\ now = 0

(***************************************************************************)
(* Transaction control: the EVM's revert and commit                        *)
(***************************************************************************)
\* a revert anywhere in the call tree that nobody catches: storage, balances,
\* allowances and the event log are those of the transaction's start
Revert(err, step) ==
    /\ chain' = pre
    /\ pc' = "done"
    /\ result' = [outcome |-> "reverted", error |-> err, failed |-> step]

\* a call that reverts in the transaction's first step
RevertAtEntry(err, step) ==
    /\ chain' = chain
    /\ pre' = chain
    /\ pc' = "done"
    /\ result' = [outcome |-> "reverted", error |-> err, failed |-> step]

\* the outermost call returns: what was written stays
Commit(c) ==
    /\ chain' = c
    /\ pc' = "done"
    /\ result' = [result EXCEPT !.outcome = "committed"]

\* a call that makes no external call and returns
CommitAtEntry(c) ==
    /\ chain' = c
    /\ pre' = chain
    /\ pc' = "done"
    /\ result' = [Pending EXCEPT !.outcome = "committed"]

FailedStep(err) ==
    CASE err = "ReentrancyGuard: reentrant call" -> "reentrancy"
      [] err = "Pausable: paused" -> "paused"
      [] err = "Ownable: caller is not the owner" -> "accessControl"
      [] err = "UnauthorizedCaller" -> "accessControl"
      [] err = "InvalidInitiator" -> "accessControl"
      [] err = "DeadlineExpired" -> "deadlineExpired"
      [] OTHER -> "validation"

(***************************************************************************)
(* What the external contracts may answer                                  *)
(***************************************************************************)
\* collateral the pool hands over in liquidationCall (the test pool: 110%)
SeizedAmounts(amount) ==
    {0, amount \div 2, amount, amount + 1, (amount * 110) \div 100}

\* arrays getAmountsOut may return for a path: too short, or one entry per hop
Quotes(amountIn, path) ==
    {<< >>, <<amountIn>>} \cup
    {[i \in 1..Len(path) |-> IF i = Len(path) THEN out ELSE amountIn] :
        out \in {0, 1, amountIn}}

\* what a swap that returns may have delivered
RealizedOutputs(expectedOut, minAmountOut) ==
    {x \in {0, minAmountOut - 1, minAmountOut, expectedOut, expectedOut + 1} : x >= 0}

(***************************************************************************)
(* executeLiquidation                                                      *)
(***************************************************************************)
ExecuteLiquidation ==
    /\ pc = "ready"
    /\ chain.totalLiquidationsExecuted < MaxLiquidations
    /\ \E sender \in Callers, targetUser \in UserArgs, collateralAsset \in AssetArgs,
          debtAsset \in AssetArgs, debtAmount \in AmountArgs,
          maxSlippageBps \in SlippageArgs, deadline \in Deadlines :
          LET a == [NoFrame EXCEPT !.fn = "executeLiquidation", !.sender = sender,
                                   !.origin = sender, !.targetUser = targetUser,
                                   !.collateralAsset = collateralAsset,
                                   !.debtAsset = debtAsset, !.debtAmount = debtAmount,
                                   !.maxSlippageBps = maxSlippageBps,
                                   !.deadline = deadline, !.timestamp = now]
              err == ExecuteLiquidationError(chain, sender, a, now)
          IN  IF err # "none"
              THEN /\ RevertAtEntry(err, FailedStep(err))
                   /\ frame' = a
              ELSE /\ pre' = chain
                   /\ chain' = [chain EXCEPT !.status = ENTERED, !.lastExecutor = sender]
                   /\ frame' = [a EXCEPT !.calls = <<"flashLoanSimple">>]
                   /\ result' = Pending
                   /\ pc' = "flashLoanSimple"
    /\ UNCHANGED now

\* mutant: the pool's rejection caught and swallowed, executeLiquidation returns
OnFlashLoanRejected_Swallowed ==
    /\ chain' = [chain EXCEPT !.status = NOT_ENTERED]
    /\ pc' = "done"
    /\ result' = [outcome |-> "committed", error |-> "none",
                  failed |-> "flashLoanRejected"]
    /\ UNCHANGED <<pre, frame, now>>

\* a failure of POOL.flashLoanSimple is not caught by executeLiquidation
OnFlashLoanRejected ==
    /\ Revert("FlashLoanRejected", "flashLoanRejected")
    /\ UNCHANGED <<pre, frame, now>>

\* POOL.flashLoanSimple: the pool rejects the loan, or sends `amount` of the
\* asset to the receiver and calls its executeOperation
PoolFlashLoanSimple ==
    /\ pc = "flashLoanSimple"
    /\ \/ OnFlashLoanRejected
       \/ /\ CanTransfer(chain, frame.debtAsset, POOL, frame.debtAmount)
          /\ \E initiator \in {THIS, POOL} :
                frame' = [frame EXCEPT !.asset = frame.debtAsset,
                                       !.amount = frame.debtAmount,
                                       !.premium = EstimateFlashLoanCost(frame.debtAmount),
                                       !.initiator = initiator,
                                       !.cbSender = POOL,
                                       !.nested = TRUE]
          /\ chain' = Transfer(chain, frame.debtAsset, POOL, THIS, frame.debtAmount)
          /\ pc' = "executeOperation"
          /\ UNCHANGED <<pre, result, now>>

(***************************************************************************)
(* executeOperation called outside executeLiquidation                      *)
(***************************************************************************)
CallExecuteOperation ==
    /\ pc = "ready"
    /\ chain.totalLiquidationsExecuted < MaxLiquidations
    /\ \E cbSender \in {POOL, STRANGER}, funded \in BOOLEAN, asset \in {DAI},
          amount \in AmountArgs \ {0}, premium \in Premiums, initiator \in {THIS, POOL},
          collateralAsset \in Tokens,
          maxSlippageBps \in {0, MAX_SLIPPAGE_BPS, 2 * BPS_DENOMINATOR},
          deadline \in Deadlines :
          /\ cbSender = STRANGER => ~funded /\ premium = 0
          /\ funded => CanTransfer(chain, asset, POOL, amount)
          /\ frame' = [NoFrame EXCEPT !.fn = "executeOperation", !.sender = cbSender,
                                      !.origin = STRANGER, !.cbSender = cbSender,
                                      !.targetUser = USER,
                                      !.collateralAsset = collateralAsset,
                                      !.debtAsset = asset, !.debtAmount = amount,
                                      !.maxSlippageBps = maxSlippageBps,
                                      !.deadline = deadline, !.asset = asset,
                                      !.amount = amount, !.premium = premium,
                                      !.initiator = initiator, !.timestamp = now]
          /\ chain' = IF funded THEN Transfer(chain, asset, POOL, THIS, amount) ELSE chain
    /\ pre' = chain
    /\ result' = Pending
    /\ pc' = "executeOperation"
    /\ UNCHANGED now

\* executeOperation up to the call of POOL.liquidationCall
ExecuteOperation ==
    /\ pc = "executeOperation"
    /\ LET err == ExecuteOperationError(chain, frame, now)
       IN  IF err # "none"
           THEN /\ Revert(err, FailedStep(err))
                /\ UNCHANGED frame
           ELSE /\ chain' = SafeIncreaseAllowance([chain EXCEPT !.status = ENTERED],
                                                  frame.debtAsset, POOL, frame.amount)
                /\ frame' = [frame EXCEPT
                               !.collateralBefore =
                                   BalanceOf(chain, frame.collateralAsset, THIS),
                               !.calls = Append(@, "liquidationCall")]
                /\ pc' = "liquidationCall"
                /\ UNCHANGED result
    /\ UNCHANGED <<pre, now>>

\* both catch clauses around POOL.liquidationCall
OnLiquidationCallFailed ==
    /\ Revert("FlashLoanFailed", "liquidationRejected")
    /\ UNCHANGED <<pre, frame, now>>

\* POOL.liquidationCall: the pool rejects, or takes up to `amount` of the debt
\* asset from the caller and sends it collateral
PoolLiquidationCall ==
    /\ pc = "liquidationCall"
    /\ \/ OnLiquidationCallFailed
       \/ \E seized \in SeizedAmounts(frame.amount), pulled \in {0, frame.amount} :
             /\ CanTransferFrom(chain, frame.debtAsset, POOL, pulled)
             /\ CanTransfer(chain, frame.collateralAsset, POOL, seized)
             /\ chain' = Transfer(TransferFrom(chain, frame.debtAsset, POOL, POOL, pulled),
                                  frame.collateralAsset, POOL, THIS, seized)
             /\ pc' = "handleLiquidationSuccess"
             /\ UNCHANGED <<pre, frame, result, now>>

LiquidationExecuted(executor, targetUser, profit, asset) ==
    [event |-> "LiquidationExecuted", executor |-> executor, targetUser |-> targetUser,
     profitGenerated |-> profit, profitToken |-> asset, amountSwapped |-> 0,
     gasUsed |-> 0]

SwapExecuted(tokenIn, tokenOut, amountIn, amountOut, slippageBps) ==
    [event |-> "SwapExecuted", tokenIn |-> tokenIn, tokenOut |-> tokenOut,
     amountIn |-> amountIn, amountOut |-> amountOut, slippageBps |-> slippageBps]

\* _handleLiquidationSuccess up to the swap (and _executeSwap up to the quote)
HandleLiquidationSuccess ==
    /\ pc = "handleLiquidationSuccess"
    /\ LET collateralAfter == BalanceOf(chain, frame.collateralAsset, THIS)
           err == CollateralReceivedError(collateralAfter, frame.collateralBefore)
           collateralReceived == collateralAfter - frame.collateralBefore
           f == [frame EXCEPT !.handled = TRUE, !.collateralAfter = collateralAfter]
       IN  IF err # "none"
           THEN /\ Revert(err, IF err = "FlashLoanFailed" THEN "zeroCollateral" ELSE "panic")
                /\ frame' = f
           ELSE IF NeedsSwap(frame.collateralAsset, frame.debtAsset, collateralReceived)
           THEN IF frame.deadline < now
                THEN /\ Revert("DeadlineExpired", "deadlineExpired")
                     /\ frame' = f
                ELSE /\ frame' = [f EXCEPT
                                    !.collateralReceived = collateralReceived,
                                    !.path = BuildSwapPath(frame.collateralAsset,
                                                           frame.debtAsset),
                                    !.calls = Append(@, "getAmountsOut")]
                     /\ pc' = "getAmountsOut"
                     /\ UNCHANGED <<chain, result>>
           ELSE /\ frame' = [f EXCEPT !.collateralReceived = collateralReceived]
                /\ pc' = "finalize"
                /\ UNCHANGED <<chain, result>>
    /\ UNCHANGED <<pre, now>>

\* ROUTER.getAmountsOut answers (or fails), then _executeSwap up to the swap
RouterGetAmountsOut ==
    /\ pc = "getAmountsOut"
    /\ \/ /\ Revert("GetAmountsOutFailed", "quoteRejected")
          /\ UNCHANGED frame
       \/ \E amounts \in Quotes(frame.collateralReceived, frame.path) :
             LET err == QuoteError(amounts)
                 expectedOut == IF amounts = << >> THEN 0 ELSE amounts[Len(amounts)]
             IN  IF err # "none"
                 THEN /\ Revert(err, "quoteRejected")
                      /\ frame' = [frame EXCEPT !.amounts = amounts, !.quoted = TRUE]
                 ELSE IF SlippageUnderflows(frame.maxSlippageBps)
                 THEN /\ Revert("Panic(0x11)", "panic")
                      /\ frame' = [frame EXCEPT !.amounts = amounts, !.quoted = TRUE]
                 ELSE /\ chain' = SafeIncreaseAllowance(chain, frame.collateralAsset,
                                                        ROUTER, frame.collateralReceived)
                      /\ frame' = [frame EXCEPT
                                     !.amounts = amounts, !.quoted = TRUE,
                                     !.expectedOut = expectedOut,
                                     !.minAmountOut =
                                         MinAmountOut(expectedOut, frame.maxSlippageBps),
                                     !.balanceBefore =
                                         BalanceOf(chain, frame.debtAsset, THIS),
                                     !.calls = Append(@, "swap")]
                      /\ pc' = "swap"
                      /\ UNCHANGED result
    /\ UNCHANGED <<pre, now>>

\* amountOut < minAmountOut, and both catch clauses around the swap
OnSlippageExceeded ==
    Revert("SlippageExceeded", "slippageExceeded")

\* the router's swap fails, or takes amountIn and delivers some output; then
\* _executeSwap to its end
RouterSwap ==
    /\ pc = "swap"
    /\ \/ /\ OnSlippageExceeded
          /\ UNCHANGED frame
       \/ \E realized \in RealizedOutputs(frame.expectedOut, frame.minAmountOut) :
             /\ CanTransferFrom(chain, frame.collateralAsset, ROUTER,
                                frame.collateralReceived)
             /\ CanTransfer(chain, frame.debtAsset, ROUTER, realized)
             /\ LET c1 == Transfer(TransferFrom(chain, frame.collateralAsset, ROUTER,
                                                ROUTER, frame.collateralReceived),
                                   frame.debtAsset, ROUTER, THIS, realized)
                    balanceAfter == BalanceOf(c1, frame.debtAsset, THIS)
                    amountOut == balanceAfter - frame.balanceBefore
                    err == SwapOutputError(balanceAfter, frame.balanceBefore,
                                           frame.minAmountOut, frame.expectedOut)
                IN  /\ frame' = [frame EXCEPT !.amountOut = amountOut, !.swapped = TRUE]
                    /\ IF err = "SlippageExceeded" THEN OnSlippageExceeded
                       ELSE IF err # "none" THEN Revert(err, "panic")
                       ELSE /\ chain' = SafeApproveZero(
                                  [c1 EXCEPT !.events = Append(@,
                                      SwapExecuted(frame.collateralAsset, frame.debtAsset,
                                          frame.collateralReceived, amountOut,
                                          ActualSlippageBps(frame.expectedOut, amountOut)))],
                                  frame.collateralAsset, ROUTER)
                            /\ pc' = "finalize"
                            /\ UNCHANGED result
    /\ UNCHANGED <<pre, now>>

\* mutant: the record emitted and the count kept, the profit not added
Settle_ProfitNotAdded(c, f, finalBalance) ==
    LET totalRepayment == TotalRepayment(f.amount, f.premium)
        profit == finalBalance - totalRepayment
        executor == IF c.lastExecutor # ZeroAddress THEN c.lastExecutor ELSE f.origin
        c1 == SafeIncreaseAllowance(c, f.asset, POOL, totalRepayment)
        c2 == [c1 EXCEPT !.totalLiquidationsExecuted = @ + 1,
                         !.events = Append(@, LiquidationExecuted(executor, f.targetUser,
                                                                  profit, f.asset))]
    IN  SafeApproveZero(c2, f.asset, POOL)

\* the state _finalizeLiquidation leaves when both checks pass
Settle(c, f, finalBalance) ==
    LET totalRepayment == TotalRepayment(f.amount, f.premium)
        profit == finalBalance - totalRepayment
        executor == IF c.lastExecutor # ZeroAddress THEN c.lastExecutor ELSE f.origin
        c1 == SafeIncreaseAllowance(c, f.asset, POOL, totalRepayment)
        c2 == [c1 EXCEPT !.totalLiquidationsExecuted = @ + 1,
                         !.totalProfitGenerated = @ + profit,
                         !.events = Append(@, LiquidationExecuted(executor, f.targetUser,
                                                                  profit, f.asset))]
    IN  SafeApproveZero(c2, f.asset, POOL)

FinalizeLiquidation ==
    /\ pc = "finalize"
    /\ LET finalBalance == BalanceOf(chain, frame.asset, THIS)
           err == FinalizeError(finalBalance, frame.amount, frame.premium)
       IN  /\ frame' = [frame EXCEPT !.finalBalance = finalBalance, !.finalized = TRUE]
           /\ IF err # "none"
              THEN Revert(err, IF err = "InsufficientBalance" THEN "insufficientBalance"
                               ELSE "insufficientProfit")
              ELSE /\ chain' = Settle(chain, frame, finalBalance)
                   /\ pc' = "return"
                   /\ UNCHANGED result
    /\ UNCHANGED <<pre, now>>

\* executeOperation returns to the pool (nonReentrant releases the guard), the
\* pool returns, and executeLiquidation, when it was the entry, returns
Return ==
    /\ pc = "return"
    /\ Commit([chain EXCEPT !.status = NOT_ENTERED])
    /\ UNCHANGED <<pre, frame, now>>

(***************************************************************************)
(* Owner functions                                                         *)
(***************************************************************************)
Pause ==
    /\ pc = "ready"
    /\ \E sender \in Callers :
          LET err == IF OnlyOwnerError(chain, sender) # "none"
                     THEN OnlyOwnerError(chain, sender)
                     ELSE IF chain.paused THEN "Pausable: paused" ELSE "none"
          IN  /\ frame' = [NoFrame EXCEPT !.fn = "pause", !.sender = sender,
                                          !.timestamp = now]
              /\ IF err # "none" THEN RevertAtEntry(err, FailedStep(err))
                 ELSE CommitAtEntry([chain EXCEPT !.paused = TRUE])
    /\ UNCHANGED now

Unpause ==
    /\ pc = "ready"
    /\ \E sender \in Callers :
          LET err == IF OnlyOwnerError(chain, sender) # "none"
                     THEN OnlyOwnerError(chain, sender)
                     ELSE IF ~chain.paused THEN "Pausable: not paused" ELSE "none"
          IN  /\ frame' = [NoFrame EXCEPT !.fn = "unpause", !.sender = sender,
                                          !.timestamp = now]
              /\ IF err # "none" THEN RevertAtEntry(err, FailedStep(err))
                 ELSE CommitAtEntry([chain EXCEPT !.paused = FALSE])
    /\ UNCHANGED now

WithdrawProfits ==
    /\ pc = "ready"
    /\ \E sender \in Callers, token \in {DAI} :
       \E amount \in {BalanceOf(chain, token, THIS), BalanceOf(chain, token, THIS) + 1} :
          LET err == IF OnlyOwnerError(chain, sender) # "none"
                     THEN OnlyOwnerError(chain, sender)
                     ELSE IF ~CanTransfer(chain, token, THIS, amount)
                          THEN "ERC20: transfer amount exceeds balance" ELSE "none"
          IN  /\ frame' = [NoFrame EXCEPT !.fn = "withdrawProfits", !.sender = sender,
                                          !.asset = token, !.amount = amount,
                                          !.timestamp = now]
              /\ IF err # "none" THEN RevertAtEntry(err, FailedStep(err))
                 ELSE CommitAtEntry(Transfer(chain, token, THIS, OWNER, amount))
    /\ UNCHANGED now

EmergencyWithdraw ==
    /\ pc = "ready"
    /\ \E sender \in Callers, token \in {DAI} :
          LET err == OnlyOwnerError(chain, sender)
              balance == BalanceOf(chain, token, THIS)
          IN  /\ frame' = [NoFrame EXCEPT !.fn = "emergencyWithdraw", !.sender = sender,
                                          !.asset = token, !.timestamp = now]
              /\ IF err # "none" THEN RevertAtEntry(err, FailedStep(err))
                 ELSE CommitAtEntry(IF balance > 0
                                    THEN Transfer(chain, token, THIS, chain.owner, balance)
                                    ELSE chain)
    /\ UNCHANGED now

\* the transaction is over: the next one starts from what it left on chain
NextTransaction ==
    /\ pc = "done"
    /\ pc' = "ready"
    /\ pre' = chain
    /\ frame' = NoFrame
    /\ result' = NoResult
    /\ UNCHANGED <<chain, now>>

\* block.timestamp moves between transactions
Tick ==
    /\ pc = "ready"
    /\ now < MaxTime
    /\ now' = now + 1
    /\ UNCHANGED <<chain, pre, pc, frame, result>>

NextLiquidator ==
    \/ ExecuteLiquidation /\ UNCHANGED <<serverVars, monitorVars>>
    \/ PoolFlashLoanSimple /\ UNCHANGED <<serverVars, monitorVars>>
    \/ CallExecuteOperation /\ UNCHANGED <<serverVars, monitorVars>>
    \/ ExecuteOperation /\ UNCHANGED <<serverVars, monitorVars>>
    \/ PoolLiquidationCall /\ UNCHANGED <<serverVars, monitorVars>>
    \/ HandleLiquidationSuccess /\ UNCHANGED <<serverVars, monitorVars>>
    \/ RouterGetAmountsOut /\ UNCHANGED <<serverVars, monitorVars>>
    \/ RouterSwap /\ UNCHANGED <<serverVars, monitorVars>>
    \/ FinalizeLiquidation /\ UNCHANGED <<serverVars, monitorVars>>
    \/ Return /\ UNCHANGED <<serverVars, monitorVars>>
    \/ Pause /\ UNCHANGED <<serverVars, monitorVars>>
    \/ Unpause /\ UNCHANGED <<serverVars, monitorVars>>
    \/ WithdrawProfits /\ UNCHANGED <<serverVars, monitorVars>>
    \/ EmergencyWithdraw /\ UNCHANGED <<serverVars, monitorVars>>
    \/ NextTransaction /\ UNCHANGED <<serverVars, monitorVars>>
    \/ Tick /\ UNCHANGED <<serverVars, monitorVars>>

SpecLiquidator == InitLiquidator /\ [][NextLiquidator]_vars

(***************************************************************************)
(* The slippage floor of _executeSwap on its own: every maxSlippageBps      *)
(* executeLiquidation lets through, against a range of quoted outputs       *)
(***************************************************************************)
MaxExpectedOut == 12

SlippageInputs == 0..MAX_SLIPPAGE_BPS

ExpectedOutInputs == (1..MaxExpectedOut) \cup {9999, 10000, 10001, 200000}

InitSlippage ==
    /\ chain = InitChain
    /\ pre = InitChain
    /\ pc = "quoted"
    /\ result = Pending
    /\ now = 0
    /\ ServerIdle
    /\ \E maxSlippageBps \in SlippageInputs, expectedOut \in ExpectedOutInputs :
          frame = [NoFrame EXCEPT !.fn = "_executeSwap",
                                  !.maxSlippageBps = maxSlippageBps,
                                  !.amounts = <<expectedOut, expectedOut>>,
                                  !.expectedOut = expectedOut, !.quoted = TRUE]

ComputeMinAmountOut ==
    /\ pc = "quoted"
    /\ IF SlippageUnderflows(frame.maxSlippageBps)
       THEN /\ Revert("Panic(0x11)", "panic")
            /\ UNCHANGED frame
       ELSE /\ frame' = [frame EXCEPT !.minAmountOut =
                            MinAmountOut(frame.expectedOut, frame.maxSlippageBps)]
            /\ pc' = "minAmountOut"
            /\ UNCHANGED <<chain, result>>
    /\ UNCHANGED <<pre, now>>

NextSlippage == ComputeMinAmountOut /\ UNCHANGED <<serverVars, monitorVars>>

SpecSlippage == InitSlippage /\ [][NextSlippage]_vars

(***************************************************************************)
(* FlashLoanService.executeLiquidationWithFlashLoan behind                  *)
(* POST /api/flash-loan/liquidation.  A request is one call of the route:  *)
(* it runs to its first wait on the network, other requests run meanwhile, *)
(* and it goes on when the RPC node answers and when the transaction is    *)
(* mined.                                                                  *)
(***************************************************************************)
MaxRequests == 3

UserAddressArgs == {"0xUserA", "0xUserB"}

\* req.body of the route
LiquidationParamsArgs ==
    [chainId : ChainIdArgs, collateralAsset : {WETH}, debtAsset : {DAI},
     userAddress : UserAddressArgs, debtToCover : {1000},
     flashLoanAsset : {DAI}, flashLoanAmount : {1000}]

\* what the specification calls the key of a liquidation
LiquidationKey(params) ==
    <<params.chainId, params.userAddress, params.collateralAsset, params.debtAsset>>

\* getLiquidatorContract, then getSigner and the check of its result: the
\* message of the Error thrown before anything is sent, or "none"
SubmissionError(e, chainId) ==
    IF chainId \notin SupportedChains THEN "Provider not found for chain"
    ELSE IF ~e.LIQUIDATOR_CONTRACT THEN "Liquidator contract not deployed on chain"
    ELSE IF ~e.PRIVATE_KEY THEN "No signer available for liquidation execution"
    ELSE "none"

\* the catch block: one row of activity_logs, and the result returned
LiquidationFailedLog(params, error) ==
    [chain_id |-> params.chainId, level |-> "error",
     message |-> "Liquidation with flash loan failed",
     userAddress |-> params.userAddress, error |-> error]

LiquidationExecutedLog(params) ==
    [chain_id |-> params.chainId, level |-> "success",
     message |-> "Liquidation with flash loan executed successfully",
     userAddress |-> params.userAddress, error |-> "none"]

FailedResult(error) == [success |-> FALSE, error |-> error]

SuccessResult == [success |-> TRUE, error |-> "none"]

\* the route and the call up to `await liquidateWithFlashLoan(...)`: nothing
\* is looked up or written about the requests already running
PostFlashLoanLiquidation ==
    \E params \in LiquidationParamsArgs :
       LET error == SubmissionError(env, params.chainId) IN
       /\ Len(requests) < MaxRequests
       /\ IF error # "none"
          THEN /\ requests' = Append(requests,
                     [params |-> params, stage |-> "responded", tx |-> "none",
                      result |-> FailedResult(error)])
               /\ activityLogs' = Append(activityLogs, LiquidationFailedLog(params, error))
          ELSE /\ requests' = Append(requests,
                     [params |-> params, stage |-> "submitting", tx |-> "none",
                      result |-> "none"])
               /\ UNCHANGED activityLogs
       /\ UNCHANGED <<env, liquidationAttempts, call, manager>>

\* the RPC node refuses the transaction: the await throws into the catch block
RpcRejects ==
    \E i \in DOMAIN requests :
       /\ requests[i].stage = "submitting"
       /\ requests' = [requests EXCEPT ![i].stage = "responded",
                                       ![i].result = FailedResult("rpc rejected")]
       /\ activityLogs' = Append(activityLogs,
                                 LiquidationFailedLog(requests[i].params, "rpc rejected"))
       /\ UNCHANGED <<env, liquidationAttempts, call, manager>>

\* the RPC node takes the transaction: the call waits in `await tx.wait()`
RpcAccepts ==
    \E i \in DOMAIN requests :
       /\ requests[i].stage = "submitting"
       /\ requests' = [requests EXCEPT ![i].stage = "waiting", ![i].tx = "pending"]
       /\ UNCHANGED <<env, liquidationAttempts, activityLogs, call, manager>>

\* the transaction is mined with status 1: tx.wait() resolves
TransactionConfirmed ==
    \E i \in DOMAIN requests :
       /\ requests[i].stage = "waiting"
       /\ requests' = [requests EXCEPT ![i].stage = "responded", ![i].tx = "confirmed",
                                       ![i].result = SuccessResult]
       /\ activityLogs' = Append(activityLogs, LiquidationExecutedLog(requests[i].params))
       /\ UNCHANGED <<env, liquidationAttempts, call, manager>>

\* the transaction is mined with status 0: tx.wait() throws into the catch block
TransactionReverted ==
    \E i \in DOMAIN requests :
       /\ requests[i].stage = "waiting"
       /\ requests' = [requests EXCEPT ![i].stage = "responded", ![i].tx = "reverted",
                                       ![i].result = FailedResult("transaction failed")]
       /\ activityLogs' = Append(activityLogs,
                                 LiquidationFailedLog(requests[i].params, "transaction failed"))
       /\ UNCHANGED <<env, liquidationAttempts, call, manager>>

\* process.env is read at each call and set before the server starts
InitService ==
    /\ MonitorIdle
    /\ env \in [ALCHEMY_API_KEY : {TRUE}, PRIVATE_KEY : BOOLEAN, LIQUIDATOR_CONTRACT : BOOLEAN]
    /\ requests = << >>
    /\ liquidationAttempts = << >>
    /\ activityLogs = << >>
    /\ call = NoCall
    /\ manager = InitManager
    /\ LiquidatorIdle

NextService ==
    \/ PostFlashLoanLiquidation /\ UNCHANGED <<liquidatorVars, monitorVars>>
    \/ RpcRejects /\ UNCHANGED <<liquidatorVars, monitorVars>>
    \/ RpcAccepts /\ UNCHANGED <<liquidatorVars, monitorVars>>
    \/ TransactionConfirmed /\ UNCHANGED <<liquidatorVars, monitorVars>>
    \/ TransactionReverted /\ UNCHANGED <<liquidatorVars, monitorVars>>

SpecService == InitService /\ [][NextService]_vars

(***************************************************************************)
(* HealthFactorCalculator.analyzeLiquidationOpportunity: the amount to     *)
(* liquidate.  An amount is a decimal numeral, [whole, fraction] with the  *)
(* fraction a sequence of digits, as the database and ethers write it;     *)
(* parseUnits makes it a count of base units and formatUnits writes it     *)
(* back.  The source works with 18 decimals; the model with Decimals of    *)
(* them, which keeps every product inside the checker's integers.          *)
(***************************************************************************)
Decimals == 2

MaxWhole == 3

ParseError == -1

RECURSIVE FractionUnits(_, _)
FractionUnits(fraction, decimals) ==
    IF fraction = << >> THEN 0
    ELSE Head(fraction) * 10^(decimals - 1) + FractionUnits(Tail(fraction), decimals - 1)

\* ethers.utils.parseUnits: throws when the fraction has more digits than decimals
ParseUnits(value, decimals) ==
    IF Len(value.fraction) > decimals THEN ParseError
    ELSE value.whole * 10^decimals + FractionUnits(value.fraction, decimals)

RECURSIVE FractionDigits(_, _)
FractionDigits(units, decimals) ==
    IF decimals = 0 THEN << >>
    ELSE <<units \div 10^(decimals - 1)>> \o
         FractionDigits(units % 10^(decimals - 1), decimals - 1)

RECURSIVE StripTrailingZeros(_)
StripTrailingZeros(digits) ==
    IF Len(digits) > 1 /\ digits[Len(digits)] = 0
    THEN StripTrailingZeros(SubSeq(digits, 1, Len(digits) - 1))
    ELSE digits

\* ethers.utils.formatUnits: trailing zeros dropped, one fraction digit kept
FormatUnits(units, decimals) ==
    [whole |-> units \div 10^decimals,
     fraction |-> StripTrailingZeros(FractionDigits(units % 10^decimals, decimals))]

HalfNumeral == [whole |-> 0, fraction |-> <<5>>]

OneNumeral == [whole |-> 1, fraction |-> << >>]

\* mutant: half the debt, whatever the collateral
MaxLiquidationAmount_DebtOnly(debtAmount, collateralAmount) ==
    debtAmount \div 2

\* maxLiquidationDebt, maxLiquidationCollateral and the choice between them
MaxLiquidationAmount(debtAmount, collateralAmount) ==
    LET maxLiquidationDebt == debtAmount \div 2
        maxLiquidationCollateral ==
            (collateralAmount * ParseUnits(HalfNumeral, Decimals))
               \div ParseUnits(OneNumeral, Decimals)
    IN  IF maxLiquidationDebt < maxLiquidationCollateral
        THEN maxLiquidationDebt
        ELSE maxLiquidationCollateral

\* estimateLiquidationGas: the node's estimate, or the default when it fails
GasEstimates == {210000, 500000}

NoOpportunity == [user |-> "null"]

\* the opportunity returned, or null when anything in the try block throws
AnalyzeLiquidationOpportunity(chainId, position, gasEstimate) ==
    LET debtAmount == ParseUnits(position.debt_amount, Decimals)
        collateralAmount == ParseUnits(position.collateral_amount, Decimals)
        liquidationBonus == ParseUnits(position.liquidation_bonus, Decimals)
        maxLiquidationAmount == MaxLiquidationAmount(debtAmount, collateralAmount)
        profitAmount == (maxLiquidationAmount * liquidationBonus)
                           \div ParseUnits(OneNumeral, Decimals)
    IN  IF chainId \notin SupportedChains THEN NoOpportunity
        ELSE IF ParseError \in {debtAmount, collateralAmount, liquidationBonus}
        THEN NoOpportunity
        ELSE [user |-> position.user_address,
              collateralAmount |-> position.collateral_amount,
              debtAmount |-> position.debt_amount,
              liquidationBonus |-> position.liquidation_bonus,
              maxLiquidationAmount |-> FormatUnits(maxLiquidationAmount, Decimals),
              potentialProfit |-> FormatUnits(profitAmount, Decimals),
              gasEstimate |-> gasEstimate]

\* the rows scanLiquidationOpportunities hands over: amounts with Decimals
\* fraction digits, and one written with a digit too many
FractionArgs == [1..Decimals -> {0, 5}] \cup {[i \in 1..(Decimals + 1) |-> 1]}

AmountNumerals == [whole : 0..MaxWhole, fraction : FractionArgs]

PositionArgs ==
    [user_address : {"0xUserA"}, debt_amount : AmountNumerals,
     collateral_amount : AmountNumerals,
     liquidation_bonus : {[whole |-> 0, fraction |-> <<0, 5>>]}]

InitAnalyze ==
    /\ MonitorIdle
    /\ \E chainId \in ChainIdArgs, position \in PositionArgs :
          call = [fn |-> "analyzeLiquidationOpportunity", chainId |-> chainId,
                  position |-> position, returned |-> FALSE]
    /\ env = EnvAllSet
    /\ requests = << >>
    /\ liquidationAttempts = << >>
    /\ activityLogs = << >>
    /\ manager = InitManager
    /\ LiquidatorIdle

Analyze ==
    /\ call.fn = "analyzeLiquidationOpportunity"
    /\ ~call.returned
    /\ \E gasEstimate \in GasEstimates :
          call' = [fn |-> call.fn, chainId |-> call.chainId, position |-> call.position,
                   returned |-> TRUE,
                   opportunity |-> AnalyzeLiquidationOpportunity(call.chainId, call.position,
                                                                 gasEstimate)]
    /\ UNCHANGED <<env, requests, liquidationAttempts, activityLogs, manager>>
    /\ UNCHANGED <<liquidatorVars, monitorVars>>

SpecAnalyze == InitAnalyze /\ [][Analyze]_vars

(***************************************************************************)
(* WebSocketManager.  `manager` holds the connections of the class and     *)
(* what it created in the runtime: the sockets that are not yet closed,    *)
(* each with the subscriptions the peer serves on it, and the armed        *)
(* timers.  Sockets, and timers, that differ in nothing but their identity *)
(* act alike, so `sockets` and `timers` are bags: connection.ws is the     *)
(* socket marked `current`, and the maps reconnectIntervals and            *)
(* pingIntervals are the mark `recorded` on the timer each of them names   *)
(* (an entry naming a timer that has fired clears nothing).  The model has *)
(* no clock, so the delay of a timer matters when it is armed and not      *)
(* after: `scheduled` is the delay scheduleReconnect passed to setTimeout  *)
(* last since the handshake.  Every handler runs to its end before the     *)
(* next event (one thread, no await inside), so a handler is one step.     *)
(* `activity` is what the handler that ran last passed to                  *)
(* DatabaseService.logActivity.  lastPing is left out: nothing reads it.   *)
(***************************************************************************)
maxReconnectAttempts == 5

reconnectDelay == 5000

pingInterval == 30000

LogsAddressArgs == {"0xPool"}

\* `errored` says that the socket has raised 'error', `errorPending` that it
\* is about to
NewSocket(chainId) ==
    [chainId |-> chainId, readyState |-> "CONNECTING", errorPending |-> FALSE,
     errored |-> FALSE, subscribed |-> {}, current |-> TRUE]

LogActivity(m, level, message) ==
    [m EXCEPT !.activity = Append(@, [level |-> level, message |-> message])]

Overflow(m) == [m EXCEPT !.overflow = TRUE]

Replace(bag, old, new) == (bag (-) SetToBag(old)) (+) SetToBag(new)

\* the map of `kind` gets a new entry for the chain: the timer it named is
\* no longer the recorded one
Unrecord(m, kind, chainId) ==
    LET named == {t \in BagToSet(m.timers) :
                     t.kind = kind /\ t.chainId = chainId /\ t.recorded}
    IN  [m EXCEPT !.timers = Replace(@, named, {[t EXCEPT !.recorded = FALSE] : t \in named})]

\* setTimeout / setInterval and the map's set
Arm(m, kind, chainId) ==
    LET timer == [kind |-> kind, chainId |-> chainId, recorded |-> TRUE]
    IN  IF BagCardinality(m.timers) >= MaxTimers THEN Overflow(m)
        ELSE [m EXCEPT !.timers = Unrecord(m, kind, chainId).timers (+) SetToBag({timer})]

\* mutant: the attempt count not compared with the maximum
ScheduleReconnect_NoCap(m, chainId) ==
    LET attempts == m.connections[chainId].reconnectAttempts + 1
        delay == reconnectDelay * 2^(attempts - 1)
    IN  Arm([m EXCEPT !.connections[chainId].reconnectAttempts = attempts,
                      !.scheduled[chainId] = delay],
            "reconnect", chainId)

\* scheduleReconnect
ScheduleReconnect(m, chainId) ==
    IF m.connections[chainId].reconnectAttempts >= maxReconnectAttempts
    THEN LogActivity(m, "error", "Max reconnection attempts reached")
    ELSE LET attempts == m.connections[chainId].reconnectAttempts + 1
             delay == reconnectDelay * 2^(attempts - 1)
         IN  Arm([m EXCEPT !.connections[chainId].reconnectAttempts = attempts,
                           !.scheduled[chainId] = delay],
                 "reconnect", chainId)

\* startPingInterval
StartPingInterval(m, chainId) == Arm(m, "ping", chainId)

\* clearIntervals: the two timers the maps name, and the map entries
ClearIntervals(m, chainId) ==
    [m EXCEPT !.timers =
        @ (-) SetToBag({t \in BagToSet(@) : t.chainId = chainId /\ t.recorded})]

\* the socket connection.ws refers to (when it is not null)
CurrentSocket(m, chainId) ==
    CHOOSE socket \in BagToSet(m.sockets) : socket.chainId = chainId /\ socket.current

\* connection.ws is assigned: the socket it referred to is current no longer.
\* `subscribed` is kept for the socket connection.ws refers to: what the peer
\* serves on a socket the manager has let go of is not observed
Dereference(m, chainId) ==
    LET referred == {socket \in BagToSet(m.sockets) :
                        socket.chainId = chainId /\ socket.current}
    IN  [m EXCEPT !.sockets =
            Replace(@, referred, {[socket EXCEPT !.current = FALSE, !.subscribed = {}] :
                                     socket \in referred})]

\* new WebSocket(wsUrl); connection.ws = ws
OpenSocket(m, chainId) ==
    IF BagCardinality(m.sockets) >= MaxSockets THEN Overflow(m)
    ELSE [m EXCEPT !.sockets = Dereference(m, chainId).sockets
                                  (+) SetToBag({NewSocket(chainId)}),
                   !.connections[chainId].ws = TheSocket]

\* mutant: a new socket even when the chain is connected
Connect_NoConnectedCheck(m, e, chainId) ==
    IF chainId \notin SupportedChains THEN m
    ELSE IF ~e.ALCHEMY_API_KEY THEN ScheduleReconnect(m, chainId)
    ELSE OpenSocket(m, chainId)

\* connect: getWebSocketUrl throws without ALCHEMY_API_KEY, into the catch
Connect(m, e, chainId) ==
    IF chainId \notin SupportedChains THEN m
    ELSE IF m.connections[chainId].isConnected THEN m
    ELSE IF ~e.ALCHEMY_API_KEY THEN ScheduleReconnect(m, chainId)
    ELSE OpenSocket(m, chainId)

ConnectReturns(m, e, chainId) ==
    IF chainId \notin SupportedChains THEN FALSE
    ELSE IF m.connections[chainId].isConnected THEN TRUE
    ELSE e.ALCHEMY_API_KEY

\* mutant: the attempt count kept across a handshake
OnOpen_NoReset(m, socket) ==
    LET chainId == socket.chainId
        m1 == [m EXCEPT !.sockets = Replace(@, {socket},
                                            {[socket EXCEPT !.readyState = "OPEN"]}),
                        !.connections[chainId].isConnected = TRUE]
    IN  StartPingInterval(LogActivity(m1, "success", "WebSocket connected"), chainId)

\* ws.on('open'), on the socket it was registered on
OnOpen(m, socket) ==
    LET chainId == socket.chainId
        m1 == [m EXCEPT !.sockets = Replace(@, {socket},
                                            {[socket EXCEPT !.readyState = "OPEN"]}),
                        !.connections[chainId].isConnected = TRUE,
                        !.connections[chainId].reconnectAttempts = 0,
                        !.scheduled[chainId] = 0]
    IN  StartPingInterval(LogActivity(m1, "success", "WebSocket connected"), chainId)

\* ws.on('close'): the socket is closed and has no further event
OnClose(m, socket) ==
    LET chainId == socket.chainId
        m1 == [m EXCEPT !.sockets = @ (-) SetToBag({socket})]
        m2 == [Dereference(m1, chainId) EXCEPT
                  !.connections[chainId].isConnected = FALSE,
                  !.connections[chainId].ws = NoSocket]
    IN  ScheduleReconnect(LogActivity(m2, "warn", "WebSocket disconnected"), chainId)

\* ws.on('error'); the socket goes on to close
OnError(m, socket) ==
    LET chainId == socket.chainId
        failed == [socket EXCEPT !.readyState = "CLOSING", !.errorPending = FALSE,
                                 !.errored = TRUE, !.subscribed = {}]
        m1 == [m EXCEPT !.sockets = Replace(@, {socket}, {failed}),
                        !.connections[chainId].isConnected = FALSE]
    IN  ScheduleReconnect(LogActivity(m1, "error", "WebSocket error"), chainId)

\* ws.close(): an open socket starts its closing handshake; one still
\* connecting is aborted, which raises 'error' and then 'close'
CloseSocket(m, socket) ==
    IF socket.readyState = "OPEN"
    THEN [m EXCEPT !.sockets = Replace(@, {socket},
                      {[socket EXCEPT !.readyState = "CLOSING", !.subscribed = {}]})]
    ELSE IF socket.readyState = "CONNECTING"
    THEN [m EXCEPT !.sockets = Replace(@, {socket},
                      {[socket EXCEPT !.readyState = "CLOSING", !.errorPending = TRUE]})]
    ELSE m

\* disconnect
Disconnect(m, chainId) ==
    IF chainId \notin SupportedChains THEN m
    ELSE IF ~m.connections[chainId].isConnected THEN m
    ELSE LET m1 == ClearIntervals(m, chainId)
             m2 == IF m1.connections[chainId].ws # NoSocket
                   THEN CloseSocket(m1, CurrentSocket(m1, chainId))
                   ELSE m1
             m3 == [Dereference(m2, chainId) EXCEPT
                       !.connections[chainId].ws = NoSocket,
                       !.connections[chainId].isConnected = FALSE,
                       !.connections[chainId].subscriptions = << >>]
         IN  LogActivity(m3, "info", "Manually disconnected")

\* ws.send / ws.ping throw on a socket that is still connecting; on one that
\* is closing they throw or do nothing, by the version of ws
TransportThrows(socket, closingThrows) ==
    \/ socket.readyState = "CONNECTING"
    \/ socket.readyState = "CLOSING" /\ closingThrows

CanSubscribe(m, chainId) ==
    /\ chainId \in SupportedChains
    /\ m.connections[chainId].isConnected
    /\ m.connections[chainId].ws # NoSocket

SubscribeReturns(m, chainId, closingThrows) ==
    /\ CanSubscribe(m, chainId)
    /\ ~TransportThrows(CurrentSocket(m, chainId), closingThrows)

\* subscribeToNewHeads / subscribeToLogs: the request sent on connection.ws
\* and the subscription recorded
Subscribe(m, chainId, subscription, closingThrows) ==
    IF ~SubscribeReturns(m, chainId, closingThrows) THEN m
    ELSE IF Len(m.connections[chainId].subscriptions) >= MaxSubscriptions THEN Overflow(m)
    ELSE LET socket == CurrentSocket(m, chainId)
             m1 == IF socket.readyState = "OPEN"
                   THEN [m EXCEPT !.sockets = Replace(@, {socket},
                            {[socket EXCEPT !.subscribed = @ \cup {subscription}]})]
                   ELSE m
             m2 == [m1 EXCEPT !.connections[chainId].subscriptions =
                                  Append(@, subscription)]
         IN  LogActivity(m2, "info", "Subscribed")

\* one run of the setInterval callback of startPingInterval
Ping(m, interval, closingThrows) ==
    LET chainId == interval.chainId
        connection == m.connections[chainId]
    IN  IF ~connection.isConnected \/ connection.ws = NoSocket
        THEN [m EXCEPT !.timers = @ (-) SetToBag({interval})]
        ELSE IF ~TransportThrows(CurrentSocket(m, chainId), closingThrows) THEN m
        ELSE LET m1 == [m EXCEPT !.connections[chainId].isConnected = FALSE,
                                 !.timers = @ (-) SetToBag({interval})]
             IN  ScheduleReconnect(m1, chainId)

\* the frames a socket receives: text that is not JSON, the JSON null, and
\* objects with or without a method, an id, params.subscription and
\* params.result
Frame(json, isNull, method, id, subscription, hasResult) ==
    [json |-> json, isNull |-> isNull, method |-> method, id |-> id,
     subscription |-> subscription, hasResult |-> hasResult]

Frames ==
    {Frame(FALSE, FALSE, "none", 0, "none", FALSE),
     Frame(TRUE, TRUE, "none", 0, "none", FALSE),
     Frame(TRUE, FALSE, "none", 0, "none", FALSE),
     Frame(TRUE, FALSE, "none", 1, "none", TRUE),
     Frame(TRUE, FALSE, "eth_subscription", 0, "none", FALSE),
     Frame(TRUE, FALSE, "eth_subscription", 0, "0x9ce5", TRUE),
     Frame(TRUE, FALSE, "eth_subscription", 0, "newHeads", TRUE),
     Frame(TRUE, FALSE, "eth_subscription", 0, "newHeads", FALSE),
     Frame(TRUE, FALSE, "eth_subscription", 0, "logs:0xPool", TRUE)}

\* startsWith('logs:')
StartsWithLogs(subscription) ==
    Len(subscription) >= 5 /\ SubSeq(subscription, 1, 5) = "logs:"

\* what the try block of handleMessage raises: JSON.parse on text that is
\* not JSON, message.method on null, block.number / log.transactionHash on
\* a missing result
MessageBodyError(message) ==
    IF ~message.json THEN "SyntaxError"
    ELSE IF message.isNull THEN "TypeError"
    ELSE IF /\ message.method = "eth_subscription"
            /\ message.subscription = "newHeads" \/ StartsWithLogs(message.subscription)
            /\ ~message.hasResult
    THEN "TypeError"
    ELSE "none"

\* mutant: the body of handleMessage outside a try block
HandleMessageThrows_NoCatch(message) == MessageBodyError(message)

\* what leaves handleMessage: catch (error) takes whatever the body raises
HandleMessageThrows(message) ==
    IF MessageBodyError(message) # "none" THEN "none" ELSE "none"

\* handleMessage with handleSubscriptionMessage, handleNewBlock, handleNewLog
\* and handleRpcResponse (which logs to the console only); the chain_status
\* row handleNewBlock updates is not part of the model
HandleMessage(m, chainId, message) ==
    IF MessageBodyError(message) # "none" THEN m
    ELSE IF message.method = "eth_subscription"
    THEN IF chainId \notin SupportedChains THEN m
         ELSE IF message.subscription = "newHeads"
         THEN LogActivity(m, "info", "New block received")
         ELSE IF StartsWithLogs(message.subscription)
         THEN LogActivity(m, "info", "New log received")
         ELSE m
    ELSE m

\* a handler has run and left `m`; `c` is the call of the public method
\* whose result is observed, NoCall for the other handlers
Handle(m, c) ==
    /\ ~m.overflow
    /\ manager' = m
    /\ call' = c
    /\ UNCHANGED <<env, requests, liquidationAttempts, activityLogs>>

Begin == [manager EXCEPT !.activity = << >>]

CallConnect ==
    \E chainId \in ChainIdArgs :
       Handle(Connect(Begin, env, chainId),
              [fn |-> "connect", chainId |-> chainId,
               returned |-> ConnectReturns(Begin, env, chainId)])

CallDisconnect ==
    \E chainId \in ChainIdArgs :
       Handle(Disconnect(Begin, chainId),
              [fn |-> "disconnect", chainId |-> chainId, returned |-> "void"])

CallSubscribeToNewHeads ==
    \E chainId \in ChainIdArgs, closingThrows \in BOOLEAN :
       Handle(Subscribe(Begin, chainId, "newHeads", closingThrows), NoCall)

CallSubscribeToLogs ==
    \E chainId \in ChainIdArgs, address \in LogsAddressArgs, closingThrows \in BOOLEAN :
       Handle(Subscribe(Begin, chainId, "logs:" \o address, closingThrows), NoCall)

SocketOpens ==
    \E socket \in BagToSet(manager.sockets) :
       /\ socket.readyState = "CONNECTING"
       /\ Handle(OnOpen(Begin, socket), NoCall)

\* a handshake or a connection that fails, or the abort close() asked for
SocketErrors ==
    \E socket \in BagToSet(manager.sockets) :
       /\ socket.readyState \in {"CONNECTING", "OPEN"} \/ socket.errorPending
       /\ Handle(OnError(Begin, socket), NoCall)

\* the peer closes an open socket, or a closing socket finishes
SocketCloses ==
    \E socket \in BagToSet(manager.sockets) :
       /\ \/ socket.readyState = "OPEN"
          \/ socket.readyState = "CLOSING" /\ ~socket.errorPending
       /\ Handle(OnClose(Begin, socket), NoCall)

\* the setTimeout callback of scheduleReconnect
ReconnectTimeoutFires ==
    \E timeout \in BagToSet(manager.timers) :
       /\ timeout.kind = "reconnect"
       /\ Handle(Connect([Begin EXCEPT !.timers = @ (-) SetToBag({timeout})],
                         env, timeout.chainId), NoCall)

PingIntervalFires ==
    \E interval \in BagToSet(manager.timers), closingThrows \in BOOLEAN :
       /\ interval.kind = "ping"
       /\ Handle(Ping(Begin, interval, closingThrows), NoCall)

\* ws.on('message') on a socket that is open; the call records what the
\* message was of what handleMessage looks at first, and what it threw
SocketMessage ==
    \E socket \in BagToSet(manager.sockets), message \in Frames :
       /\ socket.readyState = "OPEN"
       /\ Handle(HandleMessage(Begin, socket.chainId, message),
                 [fn |-> "handleMessage", chainId |-> socket.chainId,
                  returned |-> HandleMessageThrows(message),
                  frame |-> [json |-> message.json, method |-> message.method,
                             id |-> message.id]])

InitWebSocket ==
    /\ MonitorIdle
    /\ env \in [ALCHEMY_API_KEY : BOOLEAN, PRIVATE_KEY : {TRUE}, LIQUIDATOR_CONTRACT : {TRUE}]
    /\ manager = InitManager
    /\ requests = << >>
    /\ liquidationAttempts = << >>
    /\ activityLogs = << >>
    /\ call = NoCall
    /\ LiquidatorIdle

NextWebSocket ==
    \/ CallConnect /\ UNCHANGED <<liquidatorVars, monitorVars>>
    \/ CallDisconnect /\ UNCHANGED <<liquidatorVars, monitorVars>>
    \/ CallSubscribeToNewHeads /\ UNCHANGED <<liquidatorVars, monitorVars>>
    \/ CallSubscribeToLogs /\ UNCHANGED <<liquidatorVars, monitorVars>>
    \/ SocketOpens /\ UNCHANGED <<liquidatorVars, monitorVars>>
    \/ SocketErrors /\ UNCHANGED <<liquidatorVars, monitorVars>>
    \/ SocketCloses /\ UNCHANGED <<liquidatorVars, monitorVars>>
    \/ ReconnectTimeoutFires /\ UNCHANGED <<liquidatorVars, monitorVars>>
    \/ PingIntervalFires /\ UNCHANGED <<liquidatorVars, monitorVars>>
    \/ SocketMessage /\ UNCHANGED <<liquidatorVars, monitorVars>>

SpecWebSocket == InitWebSocket /\ [][NextWebSocket]_vars

(***************************************************************************)
(* AaveService.  A JavaScript number is modelled as an exact fraction      *)
(* [num, den] in lowest terms (the rounding of floating point is left      *)
(* out), and NaN as the fraction with den 0: NaN goes through every        *)
(* operation and every comparison with it is false.  The fields of a       *)
(* reserve that the subgraph sends as decimal strings are naturals here,   *)
(* with Missing for a field that is absent.  Health-factor bounds are      *)
(* hundredths (75 is 0.75).                                                *)
(***************************************************************************)
MaxReserves == 2

RECURSIVE GCD(_, _)
GCD(a, b) == IF b = 0 THEN a ELSE GCD(b, a % b)

NaN == [num |-> 0, den |-> 0]

IsNaN(x) == x.den = 0

\* the number num / den (den > 0)
Number(num, den) ==
    LET g == GCD(num, den)
    IN  [num |-> num \div g, den |-> den \div g]

Plus(x, y) ==
    IF IsNaN(x) \/ IsNaN(y) THEN NaN
    ELSE Number(x.num * y.den + y.num * x.den, x.den * y.den)

Times(x, y) ==
    IF IsNaN(x) \/ IsNaN(y) THEN NaN
    ELSE Number(x.num * y.num, x.den * y.den)

\* x / y for y > 0 or NaN (every division of the service has such a divisor)
Over(x, y) ==
    IF IsNaN(x) \/ IsNaN(y) THEN NaN
    ELSE Number(x.num * y.den, x.den * y.num)

Greater(x, y) ==
    ~IsNaN(x) /\ ~IsNaN(y) /\ x.num * y.den > y.num * x.den

AtLeast(x, y) ==
    ~IsNaN(x) /\ ~IsNaN(y) /\ x.num * y.den >= y.num * x.den

\* Math.max(0, x - y)
MaxZeroMinus(x, y) ==
    IF IsNaN(x) \/ IsNaN(y) THEN NaN
    ELSE IF Greater(x, y) THEN Number(x.num * y.den - y.num * x.den, x.den * y.den)
    ELSE Number(0, 1)

Missing == -1

\* price: null in the reserve the subgraph sends
NullPrice == -2

\* parseFloat of a decimal string, or of undefined
ParseFloat(field) == IF field = Missing THEN NaN ELSE Number(field, 1)

NoUsablePrice(reserve) == reserve.priceInEth \in {Missing, NullPrice}

Reserve(symbol, decimals, priceInEth, liquidationThreshold, balance, variableDebt,
        stableDebt, enabled) ==
    [symbol |-> symbol, decimals |-> decimals, priceInEth |-> priceInEth,
     liquidationThreshold |-> liquidationThreshold,
     currentATokenBalance |-> balance, currentVariableDebt |-> variableDebt,
     currentStableDebt |-> stableDebt, usageAsCollateralEnabledOnUser |-> enabled]

\* WETH balances in units of 0.1 at price 1 and threshold 50%: against a debt
\* worth 50 they give the health factors 0.75 .. 1.20
CollateralBalances == {750, 800, 850, 860, 870, 1050, 1200}

ReserveArgs ==
    {Reserve(WETH, 1, 1, 5000, balance, 0, 0, TRUE) : balance \in CollateralBalances}
    \cup {Reserve(WETH, 1, 1, 5000, 860, 0, 0, FALSE),
          Reserve(WETH, 1, Missing, 5000, 860, 0, 0, TRUE),
          Reserve(USDC, 0, 2, 8000, 10, 0, 5, TRUE),
          Reserve(USDC, 0, NullPrice, 8000, 10, 0, 0, TRUE),
          Reserve(DAI, 0, 1, 7500, 0, 50, 0, TRUE),
          Reserve(DAI, 0, 1, 7500, 0, 30, 20, FALSE),
          Reserve(DAI, 0, Missing, 7500, 0, 50, 0, FALSE)}

RECURSIVE ReserveLists(_)
ReserveLists(n) ==
    IF n = 0 THEN {<< >>}
    ELSE LET shorter == ReserveLists(n - 1)
         IN  shorter \cup {Append(reserves, reserve) :
                              reserves \in {l \in shorter : Len(l) = n - 1},
                              reserve \in ReserveArgs}

AaveUserArgs == {[id |-> "0xUserA", reserves |-> reserves] : reserves \in ReserveLists(MaxReserves)}

SENTINEL_HEALTH_FACTOR == 999

\* the totals of calculateHealthFactor before any reserve is added
NoTotals ==
    [totalCollateralETH |-> Number(0, 1), totalDebtETH |-> Number(0, 1),
     totalCollateralWithThreshold |-> Number(0, 1)]

\* 10 ^ decimals
PowerOfTen(decimals) == Number(10 ^ decimals, 1)

\* mutant: the balance of a reserve counted whether or not the user has it
\* enabled as collateral
AddReserve_CollateralFlagIgnored(totals, reserve) ==
    LET priceInEth == ParseFloat(reserve.priceInEth)
        liquidationThreshold == Number(reserve.liquidationThreshold, 10000)
        collateralValueETH ==
            Times(Over(ParseFloat(reserve.currentATokenBalance), PowerOfTen(reserve.decimals)),
                  priceInEth)
        totalDebt == Plus(ParseFloat(reserve.currentVariableDebt),
                          ParseFloat(reserve.currentStableDebt))
        debtValueETH == Times(Over(totalDebt, PowerOfTen(reserve.decimals)), priceInEth)
        withCollateral ==
            IF Greater(ParseFloat(reserve.currentATokenBalance), Number(0, 1))
            THEN [totals EXCEPT
                     !.totalCollateralETH = Plus(@, collateralValueETH),
                     !.totalCollateralWithThreshold =
                         Plus(@, Times(collateralValueETH, liquidationThreshold))]
            ELSE totals
    IN  IF Greater(totalDebt, Number(0, 1))
        THEN [withCollateral EXCEPT !.totalDebtETH = Plus(@, debtValueETH)]
        ELSE withCollateral

\* one pass of the loop of calculateHealthFactor
AddReserve(totals, reserve) ==
    LET priceInEth == ParseFloat(reserve.priceInEth)
        liquidationThreshold == Number(reserve.liquidationThreshold, 10000)
        collateralValueETH ==
            Times(Over(ParseFloat(reserve.currentATokenBalance), PowerOfTen(reserve.decimals)),
                  priceInEth)
        totalDebt == Plus(ParseFloat(reserve.currentVariableDebt),
                          ParseFloat(reserve.currentStableDebt))
        debtValueETH == Times(Over(totalDebt, PowerOfTen(reserve.decimals)), priceInEth)
        withCollateral ==
            IF /\ reserve.usageAsCollateralEnabledOnUser
               /\ Greater(ParseFloat(reserve.currentATokenBalance), Number(0, 1))
            THEN [totals EXCEPT
                     !.totalCollateralETH = Plus(@, collateralValueETH),
                     !.totalCollateralWithThreshold =
                         Plus(@, Times(collateralValueETH, liquidationThreshold))]
            ELSE totals
    IN  IF Greater(totalDebt, Number(0, 1))
        THEN [withCollateral EXCEPT !.totalDebtETH = Plus(@, debtValueETH)]
        ELSE withCollateral

RECURSIVE Totals(_, _)
Totals(reserves, n) ==
    IF n = 0 THEN NoTotals ELSE AddReserve(Totals(reserves, n - 1), reserves[n])

\* mutant: 0 in place of the sentinel
HealthFactorOf_ZeroWithoutDebt(totals) ==
    IF Greater(totals.totalDebtETH, Number(0, 1))
    THEN Over(totals.totalCollateralWithThreshold, totals.totalDebtETH)
    ELSE Number(0, 1)

\* totalDebtETH > 0 ? totalCollateralWithThreshold / totalDebtETH : 999
HealthFactorOf(totals) ==
    IF Greater(totals.totalDebtETH, Number(0, 1))
    THEN Over(totals.totalCollateralWithThreshold, totals.totalDebtETH)
    ELSE Number(SENTINEL_HEALTH_FACTOR, 1)

\* mutant: the threshold total divided by the debt
LiquidationThresholdOf_OverDebt(totals) ==
    IF Greater(totals.totalCollateralETH, Number(0, 1))
    THEN IF Greater(totals.totalDebtETH, Number(0, 1))
         THEN Over(totals.totalCollateralWithThreshold, totals.totalDebtETH)
         ELSE Number(0, 1)
    ELSE Number(0, 1)

\* currentLiquidationThreshold
LiquidationThresholdOf(totals) ==
    IF Greater(totals.totalCollateralETH, Number(0, 1))
    THEN Over(totals.totalCollateralWithThreshold, totals.totalCollateralETH)
    ELSE Number(0, 1)

\* calculateHealthFactor (a user without a NullPrice reserve: with one it
\* throws, see GetLiquidationOpportunities)
CalculateHealthFactor(user) ==
    LET totals == Totals(user.reserves, Len(user.reserves))
    IN  [userAddress |-> user.id,
         healthFactor |-> HealthFactorOf(totals),
         totalCollateralETH |-> totals.totalCollateralETH,
         totalDebtETH |-> totals.totalDebtETH,
         availableBorrowsETH |->
             MaxZeroMinus(totals.totalCollateralWithThreshold, totals.totalDebtETH),
         currentLiquidationThreshold |-> LiquidationThresholdOf(totals),
         ltv |-> IF Greater(totals.totalCollateralETH, Number(0, 1))
                 THEN Over(totals.totalDebtETH, totals.totalCollateralETH)
                 ELSE Number(0, 1),
         reserves |-> user.reserves]

\* the largest collateral and the largest debt of convertToLiquidationPosition
\* after the first n reserves
RECURSIVE Largest(_, _)
Largest(reserves, n) ==
    IF n = 0
    THEN [collateral |-> [symbol |-> "", valueETH |-> Number(0, 1)],
          debt |-> [symbol |-> "", valueETH |-> Number(0, 1)]]
    ELSE LET reserve == reserves[n]
             before == Largest(reserves, n - 1)
             priceInEth == ParseFloat(reserve.priceInEth)
             collateralValue ==
                 Times(Over(ParseFloat(reserve.currentATokenBalance),
                            PowerOfTen(reserve.decimals)), priceInEth)
             totalDebt == Plus(ParseFloat(reserve.currentVariableDebt),
                               ParseFloat(reserve.currentStableDebt))
             debtValue == Times(Over(totalDebt, PowerOfTen(reserve.decimals)), priceInEth)
             withCollateral ==
                 IF /\ reserve.usageAsCollateralEnabledOnUser
                    /\ Greater(ParseFloat(reserve.currentATokenBalance), Number(0, 1))
                    /\ Greater(collateralValue, before.collateral.valueETH)
                 THEN [before EXCEPT !.collateral =
                          [symbol |-> reserve.symbol, valueETH |-> collateralValue]]
                 ELSE before
         IN  IF Greater(totalDebt, Number(0, 1)) /\ Greater(debtValue, before.debt.valueETH)
             THEN [withCollateral EXCEPT !.debt =
                      [symbol |-> reserve.symbol, valueETH |-> debtValue]]
             ELSE withCollateral

NoPosition == [userAddress |-> "null"]

\* mutant: the bounds of the execution range left out of it
ConvertToLiquidationPosition_OpenRange(healthData, executionMin, executionMax) ==
    LET largest == Largest(healthData.reserves, Len(healthData.reserves))
    IN  IF largest.collateral.valueETH.num = 0 \/ largest.debt.valueETH.num = 0
        THEN NoPosition
        ELSE [userAddress |-> healthData.userAddress,
              healthFactor |-> healthData.healthFactor,
              collateralAsset |-> largest.collateral.symbol,
              debtAsset |-> largest.debt.symbol,
              status |-> IF /\ Greater(healthData.healthFactor, Number(executionMin, 100))
                            /\ Greater(Number(executionMax, 100), healthData.healthFactor)
                         THEN "in_range" ELSE "monitoring"]

\* convertToLiquidationPosition; the amounts and the estimated profit of the
\* position are left out
ConvertToLiquidationPosition(healthData, executionMin, executionMax) ==
    LET largest == Largest(healthData.reserves, Len(healthData.reserves))
    IN  IF largest.collateral.valueETH.num = 0 \/ largest.debt.valueETH.num = 0
        THEN NoPosition
        ELSE [userAddress |-> healthData.userAddress,
              healthFactor |-> healthData.healthFactor,
              collateralAsset |-> largest.collateral.symbol,
              debtAsset |-> largest.debt.symbol,
              status |-> IF /\ AtLeast(healthData.healthFactor, Number(executionMin, 100))
                            /\ AtLeast(Number(executionMax, 100), healthData.healthFactor)
                         THEN "in_range" ELSE "monitoring"]

\* sort((a, b) => a.healthFactor - b.healthFactor), as the place of one more
\* position in a sorted list
RECURSIVE InsertByHealthFactor(_, _)
InsertByHealthFactor(positions, position) ==
    IF positions = << >> THEN <<position>>
    ELSE IF Greater(Head(positions).healthFactor, position.healthFactor)
    THEN <<position>> \o positions
    ELSE <<Head(positions)>> \o InsertByHealthFactor(Tail(positions), position)

\* the loop over the users of getLiquidationOpportunities, after n users
RECURSIVE Opportunities(_, _, _)
Opportunities(users, n, ranges) ==
    IF n = 0 THEN << >>
    ELSE LET before == Opportunities(users, n - 1, ranges)
             healthData == CalculateHealthFactor(users[n])
             position == ConvertToLiquidationPosition(healthData, ranges.executionMin,
                                                      ranges.executionMax)
         IN  IF /\ AtLeast(healthData.healthFactor, Number(ranges.monitoringMin, 100))
                /\ AtLeast(Number(ranges.monitoringMax, 100), healthData.healthFactor)
                /\ position # NoPosition
             THEN InsertByHealthFactor(before, position)
             ELSE before

\* reserve.reserve.price.priceInEth on a null price throws a TypeError
PriceThrows(users) ==
    \E i \in DOMAIN users : \E j \in DOMAIN users[i].reserves :
       users[i].reserves[j].priceInEth = NullPrice

\* getLiquidationOpportunities over the users the subgraph returned (fewer
\* than a batch, with different ids); its catch returns []
GetLiquidationOpportunities(users, ranges) ==
    IF PriceThrows(users) THEN << >> ELSE Opportunities(users, Len(users), ranges)

DEFAULT_MONITORING_MIN == 75

DEFAULT_MONITORING_MAX == 105

DEFAULT_EXECUTION_MIN == 85

DEFAULT_EXECUTION_MAX == 87

\* value || fallback: undefined, 0 and NaN are falsy (all three are 0 here)
OrElse(value, fallback) == IF value = 0 THEN fallback ELSE value

\* the ranges startMonitoring passes on
RangesOf(config) ==
    [monitoringMin |-> OrElse(config.monitoringMin, DEFAULT_MONITORING_MIN),
     monitoringMax |-> OrElse(config.monitoringMax, DEFAULT_MONITORING_MAX),
     executionMin |-> OrElse(config.executionMin, DEFAULT_EXECUTION_MIN),
     executionMax |-> OrElse(config.executionMax, DEFAULT_EXECUTION_MAX)]

\* the bot configurations in storage
ConfigArgs ==
    [monitoringMin : {0, 75, 80}, monitoringMax : {105}, executionMin : {70, 80, 85},
     executionMax : {0, 87, 105, 110}]

\* startMonitoring is asked for with a configuration in storage and a user
\* in the subgraph
InitAave ==
    /\ MonitorIdle
    /\ \E config \in ConfigArgs, user \in AaveUserArgs :
          call = [fn |-> "startMonitoring", config |-> config, users |-> <<user>>,
                  returned |-> FALSE]
    /\ env = EnvAllSet
    /\ requests = << >>
    /\ liquidationAttempts = << >>
    /\ activityLogs = << >>
    /\ manager = InitManager
    /\ LiquidatorIdle

\* isLiquidatable = healthFactorNum < 1.0 (HealthFactorCalculator)
IsLiquidatable(healthFactor) == Greater(Number(1, 1), healthFactor)

\* startMonitoring up to the end of its initial scan: isMonitoring is set
\* before the scan and nothing in between returns or throws.  healthData is
\* what calculateHealthFactor returned for each user during the scan
InitialScan ==
    /\ call.fn = "startMonitoring"
    /\ ~call.returned
    /\ call' = [fn |-> call.fn, config |-> call.config, users |-> call.users,
                returned |-> TRUE,
                isMonitoring |-> TRUE,
                ranges |-> RangesOf(call.config),
                healthData |-> IF PriceThrows(call.users) THEN << >>
                               ELSE [i \in DOMAIN call.users |->
                                        CalculateHealthFactor(call.users[i])],
                positions |-> GetLiquidationOpportunities(call.users, RangesOf(call.config))]
    /\ UNCHANGED <<env, requests, liquidationAttempts, activityLogs, manager>>
    /\ UNCHANGED <<liquidatorVars, monitorVars>>

SpecAave == InitAave /\ [][InitialScan]_vars

(***************************************************************************)
(* The monitoring routes.  startMonitoring and stopMonitoring are async     *)
(* functions called from the 'message' handler of the server's WebSocket,   *)
(* which awaits them without queueing: a second message is handled while    *)
(* the first is at an await.  The methods of MemStorage resolve without     *)
(* I/O, so a handler runs on from such an await before any other event; it  *)
(* gives way at the requests to the subgraph (getLiquidationOpportunities)  *)
(* and to the price API (updateEthPrice), and a step of the model runs from *)
(* one of these to the next.  The activity log of MemStorage and the        *)
(* broadcasts to the clients are left out.  An interval is cleared by the   *)
(* cleanup function that closes over it and by nothing else, and            *)
(* monitoringCleanup, when it is not null, is the cleanup of an interval    *)
(* that is set: `intervals` counts the intervals that are set.              *)
(***************************************************************************)
MaxIntervals == 2

MaxRunning == 2

MaxScans == 1

MaxBatches == 2

\* positions convertToLiquidationPosition may return (one per user in
\* range); health factors in hundredths
ScannedPositionArgs ==
    {[userAddress |-> "0xUserA", collateralAsset |-> WETH, debtAsset |-> DAI,
      healthFactor |-> 86],
     [userAddress |-> "0xUserA", collateralAsset |-> WETH, debtAsset |-> DAI,
      healthFactor |-> 90],
     [userAddress |-> "0xUserB", collateralAsset |-> WETH, debtAsset |-> DAI,
      healthFactor |-> 90]}

\* the positions of one batch: userMap holds one user per id, and the batch
\* that ends the loop is the one without users
Batches ==
    {batch \in SUBSET ScannedPositionArgs :
        /\ batch # {}
        /\ \A p, q \in batch : p.userAddress = q.userAddress => p = q}

\* liquidationPositions after n batches of the while loop: each batch has a
\* userMap of its own
RECURSIVE ScannedPositions(_, _)
ScannedPositions(batches, n) ==
    IF n = 0 THEN EmptyBag
    ELSE ScannedPositions(batches, n - 1) (+) SetToBag(batches[n])

\* what getLiquidationOpportunities may resolve to (the order is left out)
ScanResults ==
    {ScannedPositions(batches, Len(batches)) :
        batches \in UNION {[1..n -> Batches] : n \in 0..MaxBatches}}

\* Promise.all(positions.map(position => storage.addLiquidationPosition(position))):
\* each record is set under a new randomUUID()
AddLiquidationPositions(st, positions) ==
    [st EXCEPT !.liquidationPositions = @ (+) positions]

\* Promise.all(existingPositions.map(pos => storage.removeLiquidationPosition(pos.id)))
RemoveLiquidationPositions(st, existingPositions) ==
    [st EXCEPT !.liquidationPositions = @ (-) existingPositions]

\* if (monitoringCleanup) { monitoringCleanup(); monitoringCleanup = null; }
StopExistingMonitoring(r) ==
    IF r.monitoringCleanup = "null" THEN r
    ELSE [r EXCEPT !.intervals = @ - 1, !.monitoringCleanup = "null"]

Awaiting(what) == [awaiting |-> what]

\* POST /api/bot-config
SaveBotConfiguration ==
    /\ ~storage.hasBotConfiguration
    /\ storage' = [storage EXCEPT !.hasBotConfiguration = TRUE]
    /\ UNCHANGED <<routes, call>>

\* 'start_monitoring' / 'start_executing': startMonitoring up to the request
\* of its initial scan
StartMonitoring ==
    \E executeMode \in BOOLEAN :
       /\ BagCardinality(routes.running) < MaxRunning
       /\ IF ~storage.hasBotConfiguration
          THEN /\ routes' = StopExistingMonitoring(routes)
               /\ UNCHANGED storage
          ELSE /\ routes' = [StopExistingMonitoring(routes) EXCEPT
                               !.isMonitoring = TRUE,
                               !.isExecuting = executeMode,
                               !.running = @ (+) SetToBag({Awaiting("getLiquidationOpportunities")})]
               /\ storage' = RemoveLiquidationPositions(storage, storage.liquidationPositions)
       /\ call' = [fn |-> "startMonitoring"]

\* the initial scan resolves: startMonitoring up to updateEthPrice in
\* aaveService.startMonitoring
InitialScanResolves ==
    \E initialPositions \in ScanResults :
       /\ BagIn(Awaiting("getLiquidationOpportunities"), routes.running)
       /\ storage' = AddLiquidationPositions(storage, initialPositions)
       /\ routes' = [routes EXCEPT !.running =
                        (@ (-) SetToBag({Awaiting("getLiquidationOpportunities")}))
                           (+) SetToBag({Awaiting("updateEthPrice")})]
       /\ UNCHANGED call

\* updateEthPrice resolves: setInterval, and startMonitoring assigns the
\* cleanup function to monitoringCleanup
SetMonitoringInterval ==
    /\ BagIn(Awaiting("updateEthPrice"), routes.running)
    /\ routes.intervals < MaxIntervals
    /\ routes' = [routes EXCEPT !.running = @ (-) SetToBag({Awaiting("updateEthPrice")}),
                                !.intervals = @ + 1,
                                !.monitoringCleanup = "cleanup"]
    /\ UNCHANGED <<storage, call>>

\* 'stop_bot': stopMonitoring
StopMonitoring ==
    /\ routes' = [StopExistingMonitoring(routes) EXCEPT !.isMonitoring = FALSE,
                                                        !.isExecuting = FALSE]
    /\ storage' = RemoveLiquidationPositions(storage, storage.liquidationPositions)
    /\ call' = [fn |-> "stopMonitoring"]

\* the callback of setInterval starts a scan
MonitoringIntervalFires ==
    /\ routes.intervals > 0
    /\ routes.scans < MaxScans
    /\ routes' = [routes EXCEPT !.scans = @ + 1]
    /\ UNCHANGED <<storage, call>>

\* the scan resolves and onNewPositions runs: the new records are added,
\* then those read before are removed
ScanResolves ==
    \E positions \in ScanResults :
       /\ routes.scans > 0
       /\ routes' = [routes EXCEPT !.scans = @ - 1]
       /\ LET existingPositions == storage.liquidationPositions
          IN  storage' = RemoveLiquidationPositions(
                             AddLiquidationPositions(storage, positions),
                             existingPositions)
       /\ UNCHANGED call

besideMonitor ==
    <<env, requests, liquidationAttempts, activityLogs, manager, liquidationPositions>>

InitMonitor == ServerIdle /\ LiquidatorIdle

NextMonitor ==
    \/ SaveBotConfiguration /\ UNCHANGED <<liquidatorVars, besideMonitor>>
    \/ StartMonitoring /\ UNCHANGED <<liquidatorVars, besideMonitor>>
    \/ InitialScanResolves /\ UNCHANGED <<liquidatorVars, besideMonitor>>
    \/ SetMonitoringInterval /\ UNCHANGED <<liquidatorVars, besideMonitor>>
    \/ StopMonitoring /\ UNCHANGED <<liquidatorVars, besideMonitor>>
    \/ MonitoringIntervalFires /\ UNCHANGED <<liquidatorVars, besideMonitor>>
    \/ ScanResolves /\ UNCHANGED <<liquidatorVars, besideMonitor>>

SpecMonitor == InitMonitor /\ [][NextMonitor]_vars

(***************************************************************************)
(* The table liquidation_positions.  GET /api/health-factor reads the       *)
(* user's data from the pool and then sends the INSERT ... ON CONFLICT of   *)
(* upsertLiquidationPosition; requests run side by side, so the statements  *)
(* may reach the database in another order than the reads were made.  The   *)
(* values read are stood for by the block time of the read (readAt); the    *)
(* statement itself carries no time.                                        *)
(***************************************************************************)
\* the columns with a PRIMARY KEY or UNIQUE constraint in
\* CREATE TABLE liquidation_positions
UniqueConstraints == {<<"id">>}

\* ON CONFLICT (chain_id, user_address, collateral_asset, debt_asset)
ConflictTarget == <<"chain_id", "user_address", "collateral_asset", "debt_asset">>

ConflictKey(row) ==
    <<row.chain_id, row.user_address, row.collateral_asset, row.debt_asset>>

\* PostgreSQL rejects the statement when no unique index matches the
\* conflict target (42P10)
UpsertThrows == ConflictTarget \notin UniqueConstraints

\* the rows after the statement
UpsertLiquidationPosition(table, position) ==
    IF UpsertThrows THEN table
    ELSE IF \E i \in DOMAIN table : ConflictKey(table[i]) = ConflictKey(position)
    THEN [i \in DOMAIN table |->
             IF ConflictKey(table[i]) = ConflictKey(position) THEN position ELSE table[i]]
    ELSE Append(table, position)

HealthFactorFailedLog(position) ==
    [chain_id |-> position.chain_id, level |-> "error",
     message |-> "Health factor calculation failed",
     userAddress |-> position.user_address, error |-> "42P10"]

\* a block is mined
BlockMined ==
    /\ now < MaxTime
    /\ now' = now + 1
    /\ UNCHANGED <<chain, pre, pc, frame, result, serverVars, monitorVars>>

\* the route and calculateHealthFactor up to the upsert: the pool is read
GetHealthFactor ==
    \E userAddress \in UserAddressArgs :
       /\ BagCardinality(routes.running) + Len(activityLogs) + Len(liquidationPositions)
             < MaxRequests
       /\ routes' = [routes EXCEPT !.running = @ (+) SetToBag({
             [awaiting |-> "upsertLiquidationPosition",
              position |-> [chain_id |-> Ethereum, user_address |-> userAddress,
                            collateral_asset |-> WETH, debt_asset |-> DAI,
                            readAt |-> now]]})]
       /\ UNCHANGED <<liquidationPositions, activityLogs, call>>

\* the statement is executed; when it is rejected, the catch of
\* calculateHealthFactor logs and returns null
UpsertExecutes ==
    \E handler \in BagToSet(routes.running) :
       /\ handler.awaiting = "upsertLiquidationPosition"
       /\ routes' = [routes EXCEPT !.running = @ (-) SetToBag({handler})]
       /\ liquidationPositions' =
             UpsertLiquidationPosition(liquidationPositions, handler.position)
       /\ activityLogs' = IF UpsertThrows
                          THEN Append(activityLogs, HealthFactorFailedLog(handler.position))
                          ELSE activityLogs
       /\ call' = [fn |-> "upsertLiquidationPosition", position |-> handler.position,
                   returned |-> IF UpsertThrows THEN "null" ELSE "position"]

InitUpsert == ServerIdle /\ LiquidatorIdle

NextUpsert ==
    \/ BlockMined
    \/ GetHealthFactor
          /\ UNCHANGED <<liquidatorVars, env, requests, liquidationAttempts, manager, storage>>
    \/ UpsertExecutes
          /\ UNCHANGED <<liquidatorVars, env, requests, liquidationAttempts, manager, storage>>

SpecUpsert == InitUpsert /\ [][NextUpsert]_vars

(***************************************************************************)
(* Claims                                                                  *)
(***************************************************************************)
LiquidationEntries == {"executeLiquidation", "executeOperation"}

AbortingSteps ==
    {"flashLoanRejected", "liquidationRejected", "zeroCollateral", "quoteRejected",
     "slippageExceeded", "insufficientBalance", "insufficientProfit",
     "deadlineExpired"}

Ended == pc = "done" /\ result.outcome \in {"reverted", "committed"}

\* C1: a liquidation transaction in which a step failed (loan rejected,
\* liquidation rejected, nothing seized, quote rejected, slippage exceeded,
\* balance or profit too small, deadline passed) has reverted: the counters,
\* lastExecutor, every balance, every allowance and the event log are those of
\* before the call.
C1_FailedStepRevertsAll ==
    (Ended /\ frame.fn \in LiquidationEntries /\ result.failed # "none") =>
        /\ result.outcome = "reverted"
        /\ chain.totalLiquidationsExecuted = pre.totalLiquidationsExecuted
        /\ chain.totalProfitGenerated = pre.totalProfitGenerated
        /\ chain.lastExecutor = pre.lastExecutor
        /\ chain.balanceOf = pre.balanceOf
        /\ chain.allowance = pre.allowance
        /\ chain.events = pre.events
        /\ chain.status = NOT_ENTERED

\* the owner's executeLiquidation wrote lastExecutor, the pool rejected the loan
C1_Witness ==
    /\ Ended
    /\ frame.fn = "executeLiquidation"
    /\ frame.sender = OWNER
    /\ frame.calls = <<"flashLoanSimple">>
    /\ result.failed = "flashLoanRejected"
    /\ result.failed \in AbortingSteps
    /\ pre.lastExecutor = ZeroAddress

\* the failures C2 supposes away: what the pool, the router or the prices did
EnvironmentFailures ==
    {"flashLoanRejected", "liquidationRejected", "zeroCollateral", "quoteRejected",
     "slippageExceeded", "insufficientBalance", "insufficientProfit", "panic"}

\* C2: an executeLiquidation of the owner, not paused, with valid inputs, for
\* which the pool granted the loan and called back executeOperation with the
\* liquidator as initiator, and in which neither the liquidation, the swap nor
\* the final balance fell short, does not revert; it adds exactly 1 to
\* totalLiquidationsExecuted and increases totalProfitGenerated.
C2_GrantedLiquidationSettles ==
    (/\ Ended
     /\ frame.fn = "executeLiquidation"
     /\ frame.nested
     /\ frame.initiator = THIS
     /\ result.failed \notin EnvironmentFailures) =>
        /\ result.outcome = "committed"
        /\ chain.totalLiquidationsExecuted = pre.totalLiquidationsExecuted + 1
        /\ chain.totalProfitGenerated > pre.totalProfitGenerated

\* C3: executeLiquidation, pause and withdrawProfits from another address than
\* the owner revert: no call to the pool, no transfer, no change of state.
C3_OnlyOwner ==
    (/\ frame.fn \in {"executeLiquidation", "pause", "withdrawProfits"}
     /\ frame.sender # chain.owner) =>
        /\ pc = "done"
        /\ result.outcome = "reverted"
        /\ frame.calls = << >>
        /\ chain = pre

\* a stranger asks for the profits the contract holds
C3_Witness ==
    /\ Ended
    /\ frame.fn = "withdrawProfits"
    /\ frame.sender = STRANGER
    /\ frame.amount > 0
    /\ BalanceOf(chain, frame.asset, THIS) = frame.amount
    /\ result.outcome = "reverted"

\* the errors the arguments of the running or last executeLiquidation call for
ArgumentErrors(f) ==
    (IF ZeroAddress \in {f.targetUser, f.collateralAsset, f.debtAsset}
     THEN {"ZeroAddress"} ELSE {}) \cup
    (IF f.debtAmount = 0 THEN {"ZeroAmount"} ELSE {}) \cup
    (IF f.deadline < f.timestamp THEN {"DeadlineExpired"} ELSE {}) \cup
    (IF f.maxSlippageBps > 1000 THEN {"InvalidSlippage"} ELSE {})

\* C4: the owner's executeLiquidation, not paused, with a zero address, a zero
\* amount, a deadline before the block time or a slippage above 1000 is
\* rejected with the error of (one of) its bad arguments, and the pool has not
\* been asked for a flash loan.
C4_ArgumentsRejected ==
    (/\ frame.fn = "executeLiquidation"
     /\ frame.sender = pre.owner
     /\ ~pre.paused
     /\ ArgumentErrors(frame) # {}) =>
        /\ pc = "done"
        /\ result.outcome = "reverted"
        /\ result.error \in ArgumentErrors(frame)
        /\ frame.calls = << >>
        /\ chain = pre

\* only the slippage is out of bounds
C4_Witness ==
    /\ Ended
    /\ frame.fn = "executeLiquidation"
    /\ frame.sender = pre.owner
    /\ ~pre.paused
    /\ ArgumentErrors(frame) = {"InvalidSlippage"}
    /\ result.error = "InvalidSlippage"

\* C5: once a swap has returned with less output than minAmountOut the
\* transaction has aborted with SlippageExceeded, and every token balance is
\* what it was before the transaction.
C5_SlippageExceededReverts ==
    (frame.swapped /\ frame.amountOut < frame.minAmountOut) =>
        /\ pc = "done"
        /\ result.outcome = "reverted"
        /\ result.error = "SlippageExceeded"
        /\ chain.balanceOf = pre.balanceOf

\* the router took the collateral and paid out something, but too little
C5_Witness ==
    /\ Ended
    /\ frame.swapped
    /\ frame.amountOut > 0
    /\ frame.amountOut < frame.minAmountOut
    /\ result.error = "SlippageExceeded"

\* C6: for maxSlippageBps in 0..1000 and expectedOut >= 1 the slippage floor is
\* computed without underflow, is floor(expectedOut * (10000 - maxSlippageBps)
\* / 10000), and lies in 0..expectedOut.
C6_MinAmountOutInRange ==
    /\ result.error # "Panic(0x11)"
    /\ pc = "minAmountOut" =>
          LET m == frame.minAmountOut
              e == frame.expectedOut
              keep == 10000 - frame.maxSlippageBps
          IN  /\ keep >= 0
              /\ 0 <= m /\ m <= e
              /\ m * 10000 <= e * keep
              /\ e * keep < (m + 1) * 10000

\* the smallest output at the largest slippage: the floor is 0
C6_Witness ==
    /\ pc = "minAmountOut"
    /\ frame.maxSlippageBps = 1000
    /\ frame.expectedOut = 1
    /\ frame.minAmountOut = 0

\* C7: once _finalizeLiquidation has found the balance to cover the repayment
\* with a profit below amount * 10 / 10000, the transaction has aborted with
\* InsufficientProfit; and a LiquidationExecuted record emitted by the
\* transaction carries a profit of at least that threshold.
C7_ProfitFloor ==
    LET threshold == (frame.amount * 10) \div 10000
        repayment == frame.amount + frame.premium
    IN  /\ (/\ frame.finalized
            /\ frame.finalBalance >= repayment
            /\ frame.finalBalance - repayment < threshold) =>
               /\ pc = "done"
               /\ result.outcome = "reverted"
               /\ result.error = "InsufficientProfit"
               /\ chain.events = pre.events
        /\ (frame.finalized /\ Len(chain.events) > Len(pre.events)
              /\ chain.events[Len(chain.events)].event = "LiquidationExecuted") =>
               chain.events[Len(chain.events)].profitGenerated >= threshold

\* the balance covers the repayment exactly: no profit at all
C7_Witness ==
    /\ Ended
    /\ frame.finalized
    /\ frame.finalBalance = frame.amount + frame.premium
    /\ result.error = "InsufficientProfit"

\* C8: once _finalizeLiquidation has found the balance of the borrowed asset
\* below amount + premium, the transaction has aborted with
\* InsufficientBalance and nothing is settled.
C8_RepaymentCovered ==
    (frame.finalized /\ frame.finalBalance < frame.amount + frame.premium) =>
        /\ pc = "done"
        /\ result.outcome = "reverted"
        /\ result.error = "InsufficientBalance"
        /\ chain.events = pre.events
        /\ chain.totalLiquidationsExecuted = pre.totalLiquidationsExecuted
        /\ chain.totalProfitGenerated = pre.totalProfitGenerated
        /\ chain.allowance = pre.allowance

\* the balance covers the loan but not the premium
C8_Witness ==
    /\ Ended
    /\ frame.finalized
    /\ frame.premium > 0
    /\ frame.finalBalance = frame.amount
    /\ result.error = "InsufficientBalance"

CallsMade == {frame.calls[i] : i \in 1..Len(frame.calls)}

\* C9: once the liquidation call has returned without the collateral balance
\* having grown, the transaction has aborted (FlashLoanFailed when it is
\* unchanged): no quote, no swap, no repayment approval, no settlement.
C9_NothingSeizedAborts ==
    (frame.handled /\ frame.collateralAfter <= frame.collateralBefore) =>
        /\ pc = "done"
        /\ result.outcome = "reverted"
        /\ frame.collateralAfter = frame.collateralBefore =>
              result.error = "FlashLoanFailed"
        /\ CallsMade \cap {"getAmountsOut", "swap"} = {}
        /\ ~frame.quoted /\ ~frame.swapped /\ ~frame.finalized
        /\ chain.allowance = pre.allowance
        /\ chain.events = pre.events

\* the pool accepted the liquidation and sent nothing
C9_Witness ==
    /\ Ended
    /\ frame.handled
    /\ "liquidationCall" \in CallsMade
    /\ frame.collateralAfter = frame.collateralBefore
    /\ result.error = "FlashLoanFailed"

\* C10: the router is asked for a quote or a swap only when the collateral
\* asset differs from the debt asset; a quote of fewer than two amounts is
\* rejected with InvalidPath and one whose last amount is 0 with NoOutput, and
\* then no swap has been called.
C10_QuoteChecked ==
    /\ CallsMade \cap {"getAmountsOut", "swap"} # {} =>
          frame.collateralAsset # frame.debtAsset
    /\ "swap" \in CallsMade =>
          Len(frame.amounts) >= 2 /\ frame.amounts[Len(frame.amounts)] > 0
    /\ (frame.quoted /\ Len(frame.amounts) < 2) =>
          /\ pc = "done"
          /\ result.error = "InvalidPath"
          /\ "swap" \notin CallsMade
    /\ (frame.quoted /\ Len(frame.amounts) >= 2
          /\ frame.amounts[Len(frame.amounts)] = 0) =>
          /\ pc = "done"
          /\ result.error = "NoOutput"
          /\ "swap" \notin CallsMade

\* a quote over the whole path whose last amount is 0
C10_Witness ==
    /\ Ended
    /\ frame.quoted
    /\ Len(frame.amounts) = 3
    /\ frame.amounts[3] = 0
    /\ result.error = "NoOutput"

SettlementRecords(events) ==
    SelectSeq(events, LAMBDA e : e.event = "LiquidationExecuted")

RECURSIVE SumProfits(_)
SumProfits(records) ==
    IF records = << >> THEN 0
    ELSE Head(records).profitGenerated + SumProfits(Tail(records))

C12_PauseGate ==
    /\ (frame.fn = "executeLiquidation" /\ pre.paused) =>
          /\ pc = "done"
          /\ result.outcome = "reverted"
          /\ result.error = "Pausable: paused"
          /\ frame.calls = << >>
          /\ chain = pre
    /\ (Ended /\ frame.fn = "unpause" /\ frame.sender = pre.owner /\ pre.paused) =>
          /\ result.outcome = "committed"
          /\ ~chain.paused
    /\ (/\ frame.fn = "executeLiquidation"
        /\ ~pre.paused
        /\ frame.sender = pre.owner
        /\ ArgumentErrors(frame) = {}) =>
          /\ frame.calls # << >>
          /\ frame.calls[1] = "flashLoanSimple"
          /\ result.error # "Pausable: paused"

\* the owner's otherwise valid call on a paused contract
C12_Witness ==
    /\ Ended
    /\ frame.fn = "executeLiquidation"
    /\ pre.paused
    /\ frame.sender = pre.owner
    /\ ArgumentErrors(frame) = {}
    /\ result.error = "Pausable: paused"

InFlight(request) == request.stage \in {"submitting", "waiting"}

\* C13: no two requests for the same (chain, user, collateral, debt) are in
\* flight (submitting, or waiting for their transaction) at the same time.
C13_OneInFlightPerKey ==
    \A i, j \in DOMAIN requests :
       (i # j /\ InFlight(requests[i]) /\ InFlight(requests[j])) =>
          LiquidationKey(requests[i].params) # LiquidationKey(requests[j].params)

SubmissionFailed(request) ==
    /\ request.stage = "responded"
    /\ ~request.result.success
    /\ request.tx = "none"

\* C14: a request whose submission failed before any transaction was sent
\* has a row in liquidation_attempts with status 'failed', its key and the
\* error; and it has left no transaction pending.
C14_FailedAttemptRecorded ==
    \A i \in DOMAIN requests :
       SubmissionFailed(requests[i]) =>
          \E k \in DOMAIN liquidationAttempts :
             /\ liquidationAttempts[k].status = "failed"
             /\ liquidationAttempts[k].user_address = requests[i].params.userAddress
             /\ liquidationAttempts[k].chain_id = requests[i].params.chainId
             /\ liquidationAttempts[k].error_message = requests[i].result.error

\* an opportunity has been returned for the running call
Analyzed ==
    /\ call.fn = "analyzeLiquidationOpportunity"
    /\ call.returned
    /\ call.opportunity # NoOpportunity

HalfOfDebt == ParseUnits(call.position.debt_amount, Decimals) \div 2

HalfOfCollateral == ParseUnits(call.position.collateral_amount, Decimals) \div 2

SelectedAmount == ParseUnits(call.opportunity.maxLiquidationAmount, Decimals)

\* C15 as stated: the amount selected is the larger of debt x 0.5 and the
\* cap (the code's second quantity, collateral x 0.5).
C15_LargerSelected ==
    Analyzed =>
       /\ SelectedAmount >= HalfOfDebt
       /\ SelectedAmount >= HalfOfCollateral

\* C15 amended: the amount selected is the smaller of debt x 0.5 and
\* collateral x 0.5, each rounded down to the base unit: it is one of the
\* two and exceeds neither.
C15_SmallerSelected ==
    Analyzed =>
       /\ SelectedAmount \in {HalfOfDebt, HalfOfCollateral}
       /\ SelectedAmount <= HalfOfDebt
       /\ SelectedAmount <= HalfOfCollateral

\* half the collateral below half the debt, and odd amounts of both
C15_Witness ==
    /\ Analyzed
    /\ HalfOfCollateral < HalfOfDebt
    /\ SelectedAmount = HalfOfCollateral
    /\ ParseUnits(call.position.debt_amount, Decimals) % 2 = 1
    /\ ParseUnits(call.position.collateral_amount, Decimals) % 2 = 1

Connection(chainId) == manager.connections[chainId]

\* the timers of a kind armed for a chain
Armed(m, kind, chainId) ==
    [t \in {t \in BagToSet(m.timers) : t.kind = kind /\ t.chainId = chainId}
        |-> CopiesIn(t, m.timers)]

Logged(m, message) ==
    \E i \in DOMAIN m.activity : m.activity[i].message = message

\* C16: one failure advances the attempt number by one and the k-th attempt
\* since the last handshake waits reconnectDelay x 2^(k-1): a reconnection is
\* scheduled with the delay of the attempt number it gets, and the 'close'
\* of a socket whose failure has already raised 'error' (and has been
\* counted for it) leaves the attempt number as it is.
C16_BackoffPerFailure ==
    [][\A chainId \in SupportedChains :
          /\ manager'.scheduled[chainId] \notin {0, manager.scheduled[chainId]} =>
                manager'.scheduled[chainId] =
                   reconnectDelay * 2^(manager'.connections[chainId].reconnectAttempts - 1)
          /\ \A socket \in BagToSet(manager.sockets) :
                (/\ socket.chainId = chainId
                 /\ socket.errored
                 /\ manager' = OnClose(Begin, socket)) =>
                   manager'.connections[chainId].reconnectAttempts =
                      Connection(chainId).reconnectAttempts]_vars

\* a failure handler ('error' or 'close') has run last
FailureHandled(m) ==
    Logged(m, "WebSocket error") \/ Logged(m, "WebSocket disconnected")

\* C17: the attempt number never exceeds maxReconnectAttempts; once it has
\* reached it, no step arms a reconnect timer for the chain, and a failure
\* handled then reports 'Max reconnection attempts reached'.
C17_ReconnectionCapped ==
    [][\A chainId \in SupportedChains :
          /\ manager'.connections[chainId].reconnectAttempts <= maxReconnectAttempts
          /\ Connection(chainId).reconnectAttempts = maxReconnectAttempts =>
                /\ BagCardinality(Armed(manager', "reconnect", chainId))
                      <= BagCardinality(Armed(manager, "reconnect", chainId))
                /\ FailureHandled(manager') =>
                      Logged(manager', "Max reconnection attempts reached")]_vars

\* the terminal failure has been reported and no reconnection is pending
C17_Witness ==
    \E chainId \in SupportedChains :
       /\ Connection(chainId).reconnectAttempts = maxReconnectAttempts
       /\ FailureHandled(manager)
       /\ Logged(manager, "Max reconnection attempts reached")
       /\ Armed(manager, "reconnect", chainId) = EmptyBag

\* C18: connect(chainId) on a connected chain returns true and leaves the
\* connections (isConnected, ws, reconnectAttempts, subscriptions), the
\* sockets and the timers as they were.
C18_ConnectIdempotent ==
    [][\A chainId \in SupportedChains :
          (/\ call'.fn = "connect"
           /\ call'.chainId = chainId
           /\ Connection(chainId).isConnected) =>
             /\ call'.returned = TRUE
             /\ manager'.connections = manager.connections
             /\ manager'.sockets = manager.sockets
             /\ manager'.timers = manager.timers]_vars

\* connect has returned on a connected chain that has a subscription, a
\* ping timer and a reconnect timer left over from an earlier failure
C18_Witness ==
    \E chainId \in SupportedChains :
       /\ call.fn = "connect"
       /\ call.chainId = chainId
       /\ call.returned = TRUE
       /\ Connection(chainId).isConnected
       /\ Connection(chainId).subscriptions # << >>
       /\ Armed(manager, "ping", chainId) # EmptyBag
       /\ Armed(manager, "reconnect", chainId) # EmptyBag

\* the socket has raised 'open' in the step
Opened(socket) ==
    /\ socket.readyState = "CONNECTING"
    /\ CopiesIn(socket, manager'.sockets) < CopiesIn(socket, manager.sockets)
    /\ CopiesIn([socket EXCEPT !.readyState = "OPEN"], manager'.sockets)
          > CopiesIn([socket EXCEPT !.readyState = "OPEN"], manager.sockets)

\* C19: a step in which a socket of a chain opens leaves the chain with
\* reconnectAttempts 0, isConnected true, and one more ping timer, which is
\* the one recorded in pingIntervals.
C19_HandshakeResets ==
    [][\A socket \in BagToSet(manager.sockets) :
          Opened(socket) =>
             LET chainId == socket.chainId
             IN  /\ manager'.connections[chainId].reconnectAttempts = 0
                 /\ manager'.connections[chainId].isConnected
                 /\ BagCardinality(Armed(manager', "ping", chainId))
                       = BagCardinality(Armed(manager, "ping", chainId)) + 1
                 /\ BagIn([kind |-> "ping", chainId |-> chainId, recorded |-> TRUE],
                          manager'.timers)]_vars

\* a handshake has succeeded while a reconnect timer of an earlier failure
\* is still pending: the attempt number was not 0 before it
C19_Witness ==
    \E chainId \in SupportedChains :
       /\ Logged(manager, "WebSocket connected")
       /\ Connection(chainId).reconnectAttempts = 0
       /\ Connection(chainId).isConnected
       /\ Armed(manager, "reconnect", chainId) # EmptyBag
       /\ Armed(manager, "ping", chainId) # EmptyBag

\* C20: the subscriptions recorded for a connected chain are served on the
\* socket connection.ws refers to, once that socket is open: those recorded
\* before a connection was lost are sent again on the next.
C20_SubscriptionsLive ==
    \A chainId \in SupportedChains :
       (/\ Connection(chainId).isConnected
        /\ Connection(chainId).ws # NoSocket
        /\ CurrentSocket(manager, chainId).readyState = "OPEN") =>
          \A i \in DOMAIN Connection(chainId).subscriptions :
             Connection(chainId).subscriptions[i] \in CurrentSocket(manager, chainId).subscribed

\* a run of the ping callback has failed for the chain in the step: the
\* chain was connected and is not, a ping timer is gone, and neither
\* disconnect nor a handler of a socket has run (they log)
PingFailed(chainId) ==
    /\ Connection(chainId).isConnected
    /\ ~manager'.connections[chainId].isConnected
    /\ BagCardinality(Armed(manager', "ping", chainId))
          < BagCardinality(Armed(manager, "ping", chainId))
    /\ ~Logged(manager', "Manually disconnected")
    /\ ~FailureHandled(manager')

\* C21: a ping failure leaves the connection as a close does: not connected,
\* connection.ws null, and a reconnection scheduled with the next attempt
\* number (or none at the maximum).
C21_PingFailureAsClose ==
    [][\A chainId \in SupportedChains :
          PingFailed(chainId) =>
             /\ ~manager'.connections[chainId].isConnected
             /\ manager'.connections[chainId].ws = NoSocket
             /\ manager'.connections[chainId].reconnectAttempts =
                   IF Connection(chainId).reconnectAttempts >= maxReconnectAttempts
                   THEN maxReconnectAttempts
                   ELSE Connection(chainId).reconnectAttempts + 1]_vars

\* disconnect(chainId) has returned
Disconnected(chainId) ==
    call.fn = "disconnect" /\ call.chainId = chainId

\* C22: when disconnect(chainId) has returned, no reconnect timer is pending
\* for the chain (so none fires and connects before connect is called).
C22_DisconnectCancelsReconnect ==
    \A chainId \in SupportedChains :
       Disconnected(chainId) => Armed(manager, "reconnect", chainId) = EmptyBag

\* the attempts are used up and nothing is left that acts by itself: no
\* reconnect timer, no socket that may still open
Exhausted(m, chainId) ==
    /\ m.connections[chainId].reconnectAttempts = maxReconnectAttempts
    /\ ~m.connections[chainId].isConnected
    /\ Armed(m, "reconnect", chainId) = EmptyBag
    /\ \A socket \in BagToSet(m.sockets) :
          socket.chainId = chainId => socket.readyState # "CONNECTING"

\* C23: every chain starts disconnected; a step from an exhausted connection
\* leaves it exhausted unless it is a call of connect; and a handshake at
\* the maximum attempt number leaves the chain connected with
\* reconnectAttempts 0.
C23_ExhaustedUntilConnect ==
    /\ \A chainId \in SupportedChains : ~Connection(chainId).isConnected
    /\ [][\A chainId \in SupportedChains :
             /\ Exhausted(manager, chainId) =>
                   \/ Exhausted(manager', chainId)
                   \/ call'.fn = "connect" /\ call'.chainId = chainId
             /\ \A socket \in BagToSet(manager.sockets) :
                   (/\ socket.chainId = chainId
                    /\ Connection(chainId).reconnectAttempts = maxReconnectAttempts
                    /\ Opened(socket)) =>
                      /\ manager'.connections[chainId].isConnected
                      /\ manager'.connections[chainId].reconnectAttempts = 0]_vars

\* connect has been called from outside on an exhausted connection: the
\* attempt number is at the maximum, no reconnect timer is pending, and the
\* one socket that is connecting is the one this call made
C23_Witness ==
    \E chainId \in SupportedChains :
       /\ call.fn = "connect"
       /\ call.chainId = chainId
       /\ call.returned = TRUE
       /\ Connection(chainId).reconnectAttempts = maxReconnectAttempts
       /\ ~Connection(chainId).isConnected
       /\ Armed(manager, "reconnect", chainId) = EmptyBag
       /\ BagCardinality(manager.sockets) = 1
       /\ CurrentSocket(manager, chainId).readyState = "CONNECTING"

\* handleMessage has returned from a frame that is not JSON, or has neither
\* the method eth_subscription nor an id
MalformedHandled(c) ==
    /\ c.fn = "handleMessage"
    /\ ~c.frame.json \/ (c.frame.method # "eth_subscription" /\ c.frame.id = 0)

\* C24: handleMessage on a malformed frame throws nothing and leaves the
\* connections (isConnected, ws, reconnectAttempts, subscriptions), the
\* sockets and the timers as they were.
C24_MalformedFrameDropped ==
    [][MalformedHandled(call') =>
          /\ call'.returned = "none"
          /\ manager'.connections = manager.connections
          /\ manager'.sockets = manager.sockets
          /\ manager'.timers = manager.timers
          /\ manager'.activity = << >>]_vars

\* text that is not JSON has been handled on a connected chain with a
\* subscription and a ping timer
C24_Witness ==
    /\ MalformedHandled(call)
    /\ ~call.frame.json
    /\ call.returned = "none"
    /\ Connection(call.chainId).isConnected
    /\ Connection(call.chainId).subscriptions # << >>
    /\ Armed(manager, "ping", call.chainId) # EmptyBag

\* the initial scan of startMonitoring has ended
Scanned == call.fn = "startMonitoring" /\ call.returned

ValidRanges(ranges) ==
    /\ ranges.monitoringMin <= ranges.executionMin
    /\ ranges.executionMin <= ranges.executionMax
    /\ ranges.executionMax <= ranges.monitoringMax

\* the user has been reported with the status
Reported(user, status) ==
    \E i \in DOMAIN call.positions :
       /\ call.positions[i].userAddress = user.id
       /\ call.positions[i].status = status

\* hf lies in [low, high], bounds in hundredths
Within(hf, low, high) ==
    ~IsNaN(hf) /\ low * hf.den <= 100 * hf.num /\ 100 * hf.num <= high * hf.den

\* C25: with monitoringMin <= executionMin <= executionMax <= monitoringMax
\* a user is reported 'in_range' iff the health factor lies in the execution
\* range, 'monitoring' iff it lies in the monitoring range outside the
\* execution range, and is not reported otherwise.
C25_Classification ==
    (Scanned /\ ValidRanges(call.ranges)) =>
       \A i \in DOMAIN call.healthData :
          LET hf == call.healthData[i].healthFactor
              inExecution == Within(hf, call.ranges.executionMin, call.ranges.executionMax)
              inMonitoring == Within(hf, call.ranges.monitoringMin, call.ranges.monitoringMax)
          IN  /\ Reported(call.users[i], "in_range") <=> inExecution
              /\ Reported(call.users[i], "monitoring") <=> (inMonitoring /\ ~inExecution)

\* a health factor on the upper bound of the execution range, reported
\* 'in_range'
C25_Witness ==
    /\ Scanned
    /\ ValidRanges(call.ranges)
    /\ call.ranges.executionMax < call.ranges.monitoringMax
    /\ \E i \in DOMAIN call.healthData :
          /\ call.healthData[i].healthFactor = Number(call.ranges.executionMax, 100)
          /\ Reported(call.users[i], "in_range")

\* every bound of the configuration is there and the execution range lies
\* inside the monitoring range
ValidConfig(config) ==
    /\ 0 \notin {config.monitoringMin, config.monitoringMax,
                  config.executionMin, config.executionMax}
    /\ ValidRanges(config)

\* C26: monitoring starts only with a configuration whose execution range
\* lies inside its monitoring range, and the ranges in use are the ones
\* configured.
C26_InvalidConfigRejected ==
    (Scanned /\ call.isMonitoring) =>
       /\ ValidConfig(call.config)
       /\ call.ranges = call.config

UsablePrice(reserve) == ~NoUsablePrice(reserve)

AllPriced(user) ==
    \A j \in DOMAIN user.reserves : UsablePrice(user.reserves[j])

\* the value of n / 10^decimals x price
ValueOf(n, reserve) ==
    Times(Over(Number(n, 1), Number(10 ^ reserve.decimals, 1)), Number(reserve.priceInEth, 1))

\* the sum over the first n reserves of the debt values
RECURSIVE DebtValue(_, _)
DebtValue(reserves, n) ==
    IF n = 0 THEN Number(0, 1)
    ELSE Plus(DebtValue(reserves, n - 1),
              ValueOf(reserves[n].currentVariableDebt + reserves[n].currentStableDebt,
                      reserves[n]))

\* the sum over the first n reserves of weight x the collateral value of the
\* reserves enabled as collateral (weight 1: the collateral value; weight
\* the threshold: the weighted threshold)
RECURSIVE CollateralValue(_, _, _)
CollateralValue(reserves, n, weighted) ==
    IF n = 0 THEN Number(0, 1)
    ELSE LET reserve == reserves[n]
             weight == IF weighted THEN Number(reserve.liquidationThreshold, 10000)
                       ELSE Number(1, 1)
         IN  Plus(CollateralValue(reserves, n - 1, weighted),
                  IF reserve.usageAsCollateralEnabledOnUser
                  THEN Times(ValueOf(reserve.currentATokenBalance, reserve), weight)
                  ELSE Number(0, 1))

C28_HealthFactorFormula ==
    Scanned =>
       \A i \in DOMAIN call.healthData :
          LET user == call.users[i]
              n == Len(user.reserves)
          IN  (AllPriced(user) /\ DebtValue(user.reserves, n).num > 0) =>
                 /\ call.healthData[i].totalDebtETH = DebtValue(user.reserves, n)
                 /\ call.healthData[i].totalCollateralETH =
                       CollateralValue(user.reserves, n, FALSE)
                 /\ call.healthData[i].healthFactor =
                       Over(CollateralValue(user.reserves, n, TRUE),
                            DebtValue(user.reserves, n))

\* a user with debt, a balance enabled as collateral and a balance that is
\* not
C28_Witness ==
    /\ Scanned
    /\ \E i \in DOMAIN call.healthData :
          LET user == call.users[i]
          IN  /\ AllPriced(user)
              /\ DebtValue(user.reserves, Len(user.reserves)).num > 0
              /\ call.healthData[i].healthFactor.num > 0
              /\ \E j \in DOMAIN user.reserves :
                    /\ ~user.reserves[j].usageAsCollateralEnabledOnUser
                    /\ user.reserves[j].currentATokenBalance > 0

\* C29: with collateral worth more than 0, currentLiquidationThreshold lies
\* in [0, 1].
C29_ThresholdInUnitInterval ==
    Scanned =>
       \A i \in DOMAIN call.healthData :
          Greater(call.healthData[i].totalCollateralETH, Number(0, 1)) =>
             /\ ~IsNaN(call.healthData[i].currentLiquidationThreshold)
             /\ call.healthData[i].currentLiquidationThreshold.num >= 0
             /\ call.healthData[i].currentLiquidationThreshold.num
                   <= call.healthData[i].currentLiquidationThreshold.den

\* two reserves with different thresholds as collateral, and debt worth
\* less than the weighted threshold
C29_Witness ==
    /\ Scanned
    /\ \E i \in DOMAIN call.healthData :
          /\ Greater(call.healthData[i].totalCollateralETH, Number(0, 1))
          /\ Greater(call.healthData[i].healthFactor, Number(1, 1))
          /\ Greater(call.healthData[i].totalDebtETH, Number(0, 1))
          /\ Greater(call.healthData[i].currentLiquidationThreshold, Number(1, 2))
          /\ Greater(Number(4, 5), call.healthData[i].currentLiquidationThreshold)

\* C30: the health data of a user with a reserve that has no usable price
\* is the health data of the user without that reserve, and no number in it
\* is NaN.
C30_UnpricedReserveExcluded ==
    Scanned =>
       \A i \in DOMAIN call.users :
          LET priced == SelectSeq(call.users[i].reserves, UsablePrice)
          IN  /\ i \in DOMAIN call.healthData
              /\ ~IsNaN(call.healthData[i].healthFactor)
              /\ call.healthData[i].healthFactor = HealthFactorOf(Totals(priced, Len(priced)))

\* C33: when executeOperation is about to return true (its whole body has
\* run), the pool's allowance on the borrowed asset covers the repayment
\* amount + premium the pool pulls next.
C33_RepaymentApproved ==
    pc = "return" =>
       Allowance(chain, frame.asset, POOL) >= TotalRepayment(frame.amount, frame.premium)

\* C34: a swap that returned with at least minAmountOut, more than the quote
\* included, does not abort the liquidation in the reported-slippage
\* computation.
C34_PositiveSlippageSettles ==
    (/\ pc = "done"
     /\ frame.swapped
     /\ frame.amountOut >= frame.minAmountOut
     /\ frame.amountOut > frame.expectedOut)
       => result.error # "Panic(0x11)"

\* the reconnect timers of a chain that reconnectIntervals does not name
Unrecorded(m, chainId) ==
    {t \in BagToSet(m.timers) : t.kind = "reconnect" /\ t.chainId = chainId /\ ~t.recorded}

\* C35: the 'close' of a socket whose failure has raised 'error' schedules
\* nothing more and leaves reconnectAttempts as the 'error' left it; and
\* after every step each chain has at most one reconnect timer pending,
\* which is the one reconnectIntervals names.
C35_OneReconnectPerFailure ==
    [][\A chainId \in SupportedChains :
          /\ \A socket \in BagToSet(manager.sockets) :
                (/\ socket.chainId = chainId
                 /\ socket.errored
                 /\ manager' = OnClose(Begin, socket)) =>
                   /\ Armed(manager', "reconnect", chainId)
                         = Armed(manager, "reconnect", chainId)
                   /\ manager'.connections[chainId].reconnectAttempts
                         = Connection(chainId).reconnectAttempts
          /\ BagCardinality(Armed(manager', "reconnect", chainId)) <= 1
          /\ Unrecorded(manager', chainId) = {}]_vars

\* the sockets of a chain that are connecting or open
Transports(m, chainId) ==
    [socket \in {x \in BagToSet(m.sockets) :
                    x.chainId = chainId /\ x.readyState \in {"CONNECTING", "OPEN"}}
        |-> CopiesIn(socket, m.sockets)]

\* C36: a chain that is connected has connection.ws set to a socket that is
\* open, and no chain has more than one socket that is connecting or open.
C36_OneLiveTransport ==
    \A chainId \in SupportedChains :
       /\ Connection(chainId).isConnected =>
             /\ Connection(chainId).ws # NoSocket
             /\ CurrentSocket(manager, chainId).readyState = "OPEN"
       /\ BagCardinality(Transports(manager, chainId)) <= 1

\* a socket that is closing without having failed: only ws.close() on an
\* open socket, which disconnect alone calls, leaves a socket so
ClosedByDisconnect(socket) ==
    socket.readyState = "CLOSING" /\ ~socket.errored /\ ~socket.errorPending

\* C37: the 'close' of a socket that disconnect closed schedules no
\* reconnection: the chain's reconnect timers and reconnectAttempts are
\* what they were, and the chain stays disconnected.
C37_DisconnectStays ==
    [][\A socket \in BagToSet(manager.sockets) :
          (ClosedByDisconnect(socket) /\ manager' = OnClose(Begin, socket)) =>
             /\ Armed(manager', "reconnect", socket.chainId)
                   = Armed(manager, "reconnect", socket.chainId)
             /\ manager'.connections[socket.chainId].reconnectAttempts
                   = Connection(socket.chainId).reconnectAttempts]_vars

\* C38: no chain has more than one ping timer armed.
C38_OnePingTimer ==
    \A chainId \in SupportedChains :
       BagCardinality(Armed(manager, "ping", chainId)) <= 1

\* C40: reconnectAttempts of every chain is between 0 and
\* maxReconnectAttempts.
C40_AttemptsBounded ==
    \A chainId \in SupportedChains :
       /\ Connection(chainId).reconnectAttempts >= 0
       /\ Connection(chainId).reconnectAttempts <= maxReconnectAttempts

\* the last attempt allowed has been scheduled and a failure arrives while
\* its timer is pending: scheduleReconnect runs at the maximum
C40_Witness ==
    \E chainId \in SupportedChains :
       /\ Connection(chainId).reconnectAttempts = maxReconnectAttempts
       /\ Armed(manager, "reconnect", chainId) # EmptyBag
       /\ Logged(manager, "Max reconnection attempts reached")

\* the key of a record of MemStorage (the records are those of the one
\* chain AaveService scans)
PositionKey(position) ==
    <<position.userAddress, position.collateralAsset, position.debtAsset>>

\* C31: MemStorage holds at most one record per user, collateral asset and
\* debt asset.
C31_OneRecordPerKey ==
    \A p \in BagToSet(storage.liquidationPositions) :
       BagCardinality([q \in {x \in BagToSet(storage.liquidationPositions) :
                                 PositionKey(x) = PositionKey(p)}
                          |-> CopiesIn(q, storage.liquidationPositions)]) = 1

\* C32: after an upsert has been executed, the table holds one row with its
\* key, and the row's values are those of a read at least as new as the
\* upsert's.
C32_NewestWins ==
    call.fn = "upsertLiquidationPosition" =>
       LET rows == {i \in DOMAIN liquidationPositions :
                       ConflictKey(liquidationPositions[i]) = ConflictKey(call.position)}
       IN  /\ Cardinality(rows) = 1
           /\ \A i \in rows : liquidationPositions[i].readAt >= call.position.readAt

\* C39: at most one scan interval is set, and while the last request
\* received is stop_bot no interval is set and isMonitoring is false.
C39_OneScanTimer ==
    /\ routes.intervals <= 1
    /\ call.fn = "stopMonitoring" => routes.intervals = 0 /\ ~routes.isMonitoring

====
